---- MODULE Spec2Model ----
(***************************************************************************)
(* Model of the grading / scoring engine of the certificate digitization   *)
(* pipeline (3.ScoringAndDBOps/utility/extract_pdf_data.py): the field     *)
(* merge, the shape classification, the round and the fancy evaluation     *)
(* path, the characteristic lookups and the output assembly.               *)
(*                                                                         *)
(* Python values are modelled as TLA+ strings.  A dict is a function from  *)
(* key to string; a key that is absent from the dict maps to Missing and   *)
(* the Python value None is PyNone.  Numbers parsed out of text are kept   *)
(* as integers counted in hundredths (Scale).  An exception that leaves    *)
(* the function is the flag exc of the evaluation state.                   *)
(***************************************************************************)
EXTENDS Integers, Sequences, FiniteSets, TLC

(***************************************************************************)
(* Python values                                                           *)
(***************************************************************************)
Missing == "<missing>"
PyNone == "<None>"
PyIntZero == "<int 0>"
PyFloat == "<float>"

IsStr(v) == v \notin {Missing, PyNone, PyIntZero, PyFloat}

\* fixed point: 1.00 is Scale
Scale == 100

(***************************************************************************)
(* str methods                                                             *)
(***************************************************************************)
Uppers == "ABCDEFGHIJKLMNOPQRSTUVWXYZ"
Lowers == "abcdefghijklmnopqrstuvwxyz"
Digits == "0123456789"

Ch(s, i) == SubSeq(s, i, i)

IndexIn(alphabet, c) ==
    IF \E i \in 1..Len(alphabet) : Ch(alphabet, i) = c
    THEN CHOOSE i \in 1..Len(alphabet) : Ch(alphabet, i) = c
    ELSE 0

IsDigit(c) == c \in {"0", "1", "2", "3", "4", "5", "6", "7", "8", "9"}

DigitVal(c) == IndexIn(Digits, c) - 1

\* the lower-case letter of each upper-case letter, and the other way round
ToLower == [c \in {Ch(Uppers, i) : i \in 1..Len(Uppers)} |-> Ch(Lowers, IndexIn(Uppers, c))]

ToUpper == [c \in {Ch(Lowers, i) : i \in 1..Len(Lowers)} |-> Ch(Uppers, IndexIn(Lowers, c))]

LowerCh(c) == IF c \in DOMAIN ToLower THEN ToLower[c] ELSE c

UpperCh(c) == IF c \in DOMAIN ToUpper THEN ToUpper[c] ELSE c

RECURSIVE PyLower(_)
PyLower(s) == IF s = "" THEN "" ELSE LowerCh(Ch(s, 1)) \o PyLower(SubSeq(s, 2, Len(s)))

RECURSIVE PyUpper(_)
PyUpper(s) == IF s = "" THEN "" ELSE UpperCh(Ch(s, 1)) \o PyUpper(SubSeq(s, 2, Len(s)))

\* sub in s
Contains(s, sub) ==
    \E i \in 0..(Len(s) - Len(sub)) : SubSeq(s, i + 1, i + Len(sub)) = sub

\* s.find(sub) + 1, 0 when sub is not in s
Find(s, sub) ==
    IF Contains(s, sub)
    THEN 1 + CHOOSE i \in 0..(Len(s) - Len(sub)) :
                /\ SubSeq(s, i + 1, i + Len(sub)) = sub
                /\ \A j \in 0..(i - 1) : SubSeq(s, j + 1, j + Len(sub)) # sub
    ELSE 0

\* s.split(sep), sep not empty
RECURSIVE SplitOn(_, _)
SplitOn(s, sep) ==
    IF Find(s, sep) = 0 THEN <<s>>
    ELSE <<SubSeq(s, 1, Find(s, sep) - 1)>>
         \o SplitOn(SubSeq(s, Find(s, sep) + Len(sep), Len(s)), sep)

\* s.replace(old, new), old not empty
RECURSIVE Replace(_, _, _)
Replace(s, old, new) ==
    IF Find(s, old) = 0 THEN s
    ELSE SubSeq(s, 1, Find(s, old) - 1) \o new
         \o Replace(SubSeq(s, Find(s, old) + Len(old), Len(s)), old, new)

RECURSIVE LStrip(_)
LStrip(s) == IF s # "" /\ Ch(s, 1) = " " THEN LStrip(SubSeq(s, 2, Len(s))) ELSE s

RECURSIVE RStrip(_)
RStrip(s) == IF s # "" /\ Ch(s, Len(s)) = " " THEN RStrip(SubSeq(s, 1, Len(s) - 1)) ELSE s

Strip(s) == LStrip(RStrip(s))

\* s.split(): the words between runs of blanks
RECURSIVE SplitWs(_)
SplitWs(s) ==
    LET t == LStrip(s)
    IN  IF t = "" THEN <<>>
        ELSE IF Find(t, " ") = 0 THEN <<t>>
        ELSE <<SubSeq(t, 1, Find(t, " ") - 1)>> \o SplitWs(SubSeq(t, Find(t, " "), Len(t)))

\* sep.join(l)
RECURSIVE Join(_, _)
Join(l, sep) ==
    IF l = <<>> THEN ""
    ELSE IF Len(l) = 1 THEN l[1]
    ELSE l[1] \o sep \o Join(Tail(l), sep)

(***************************************************************************)
(* float(s) and the pattern_digi search                                    *)
(***************************************************************************)
\* length of the run of digits of s that starts at position i
RECURSIVE DigitRun(_, _)
DigitRun(s, i) == IF i <= Len(s) /\ IsDigit(Ch(s, i)) THEN 1 + DigitRun(s, i + 1) ELSE 0

RECURSIVE DigitsVal(_)
DigitsVal(s) == IF s = "" THEN 0 ELSE DigitsVal(SubSeq(s, 1, Len(s) - 1)) * 10 + DigitVal(Ch(s, Len(s)))

\* the fraction digits f of "i.f" in hundredths (digits after the second are dropped)
FracVal(f) ==
    IF Len(f) = 0 THEN 0
    ELSE IF Len(f) = 1 THEN DigitVal(Ch(f, 1)) * 10
    ELSE DigitVal(Ch(f, 1)) * 10 + DigitVal(Ch(f, 2))

\* the sign of a stripped literal and the literal without it
SignOf(t) == IF t # "" /\ Ch(t, 1) = "-" THEN 0 - 1 ELSE 1

Unsigned(t) == IF t # "" /\ Ch(t, 1) \in {"-", "+"} THEN SubSeq(t, 2, Len(t)) ELSE t

\* the text before and the text after the first "." of u
IntPart(u) == IF Find(u, ".") = 0 THEN u ELSE SubSeq(u, 1, Find(u, ".") - 1)

FracPart(u) == IF Find(u, ".") = 0 THEN "" ELSE SubSeq(u, Find(u, ".") + 1, Len(u))

\* sign * ip.fp when ip and fp are digits and one of them is there
Decimal(sign, ip, fp) ==
    IF DigitRun(ip, 1) = Len(ip) /\ DigitRun(fp, 1) = Len(fp) /\ Len(ip) + Len(fp) >= 1
    THEN [ok |-> TRUE, v |-> sign * (DigitsVal(ip) * Scale + FracVal(fp))]
    ELSE [ok |-> FALSE, v |-> 0]

\* float(s) for the decimal literals [+-]ddd[.ddd] and .ddd; ok = FALSE is ValueError
PyFloatOf(s) ==
    Decimal(SignOf(Strip(s)), IntPart(Unsigned(Strip(s))), FracPart(Unsigned(Strip(s))))

\* the least element of a set of positions, 0 for the empty set
FirstOf(S) == IF S = {} THEN 0 ELSE CHOOSE m \in S : \A j \in S : m <= j

\* is position j of s a "," or "." with a digit after it
SepAt(s, j) == j + 1 <= Len(s) /\ Ch(s, j) \in {",", "."} /\ IsDigit(Ch(s, j + 1))

\* does r'\d+[,.]?\d+' match at position i of s (i starts a run of digits)
NumMatchAt(s, i) ==
    DigitRun(s, i) >= 2 \/ (DigitRun(s, i) = 1 /\ SepAt(s, i + 1))

\* the match at position i of s, whose first run of digits ends before position j
NumberAt(s, i, j) ==
    [ok |-> TRUE,
     v |-> DigitsVal(SubSeq(s, i, j - 1)) * Scale
           + (IF SepAt(s, j) THEN FracVal(SubSeq(s, j + 1, j + DigitRun(s, j + 1))) ELSE 0)]

\* the match that starts at position i, i = 0 when s has no match
NumberFrom(s, i) ==
    IF i = 0 THEN [ok |-> FALSE, v |-> 0] ELSE NumberAt(s, i, i + DigitRun(s, i))

\* float(re.findall(pattern_digi, s)[0].replace(',', '.')); ok = FALSE is IndexError
FirstNumber(s) == NumberFrom(s, FirstOf({i \in 1..Len(s) : NumMatchAt(s, i)}))

\* "lo <= v <= hi" for a window "lo-hi" of a requirement
InWindow(v, window) ==
    /\ v >= PyFloatOf(SplitOn(window, "-")[1]).v
    /\ v <= PyFloatOf(SplitOn(window, "-")[2]).v

\* str(n) for n >= 0
RECURSIVE NatStr(_)
NatStr(n) == IF n < 10 THEN Ch(Digits, n + 1) ELSE NatStr(n \div 10) \o Ch(Digits, (n % 10) + 1)

\* round-half-even of a / b for a >= 0, b > 0
RoundDiv(a, b) ==
    LET q == a \div b
        r == a % b
    IN  IF 2 * r > b THEN q + 1
        ELSE IF 2 * r < b THEN q
        ELSE IF q % 2 = 0 THEN q ELSE q + 1

\* repr of the float h / 100 that has at most two decimals: 100.0, 92.31, 84.6
FloatRepr(h) ==
    LET ip == h \div 100
        fp == h % 100
    IN  NatStr(ip) \o "." \o
        (IF fp % 10 = 0 THEN NatStr(fp \div 10) ELSE NatStr(fp \div 10) \o NatStr(fp % 10))

(***************************************************************************)
(* Configuration tables.  diamonds_type_config.json and config.json are    *)
(* data files loaded at import; their layout is the one the lookups of     *)
(* the engine read, their rows are a small table in that layout.           *)
(***************************************************************************)
\* diamonds_type_config.json: one requirement per shape family
Req(t, lw, tb, dp, pa, pd, ca) ==
    [Diamond_type |-> t, length_width_ratio |-> lw, table |-> tb, depth |-> dp,
     pavilion_angle |-> pa, pavilion_depth |-> pd, crown_angle |-> ca]

data ==
    << Req("round", "1.00-1.02", "54-60", "59-62.6", "40.6-41.0", "42.5-43.5", "34.0-35.0"),
       Req("princess", "1.00-1.05", "62-73", "64-75", "40.0-42.0", "55-65", Missing),
       Req("asscher", "1.00-1.05", "60-68", "61-68", "40.0-42.0", "55-65", Missing),
       Req("emerald", "1.30-1.50", "60-68", "61-68", "40.0-42.0", "55-65", Missing),
       Req("radiant sq", "1.00-1.05", "61-69", "61-67", "40.0-42.0", "55-65", Missing),
       Req("radiant rec", "1.20-1.50", "61-69", "61-67", "40.0-42.0", "55-65", Missing),
       Req("pear", "1.45-1.75", "53-63", "58-64", "40.0-42.0", "55-65", Missing),
       Req("cushion", "1.00-1.08", "58-66", "61-68", "40.0-42.0", "55-65", Missing),
       Req("heart", "0.90-1.10", "53-63", "58-64", "40.0-42.0", "55-65", Missing) >>

NV(n, v) == [name |-> n, value |-> v]

\* config.json, characteristic_name "GIRDLE THICKNESS"
GirdleThickness ==
    << NV("Medium", 5), NV("Thin to Medium", 5), NV("Slightly Thick", 4),
       NV("Thick", 3), NV("Extremely Thick", 1) >>

\* config.json, characteristic_name "GIRDLE THICKNESS HEART"
GirdleThicknessHeart ==
    << NV("Medium", 4), NV("Slightly Thick", 5), NV("Thick", 5), NV("Extremely Thick", 2) >>

\* config.json, characteristic_name "ROUND SCORE": one row per grade, type_configuration
\* holds the sub-scores of the grade by position
RoundScore ==
    << [data_type |-> "Excellent", type_configuration |-> <<5, 5, 5>>],
       [data_type |-> "Very Good", type_configuration |-> <<3, 4, 4>>],
       [data_type |-> "Good", type_configuration |-> <<1, 3, 2>>],
       [data_type |-> "Fair", type_configuration |-> <<0, 1, 1>>] >>

\* config.json, characteristic_name "FLUORESCENCE": one row per color grade
Fluorescence ==
    << [data_type |-> "D", type_configuration |-> << NV("default", 5), NV("Faint", 4), NV("Strong Blue", 1) >>],
       [data_type |-> "F", type_configuration |-> << NV("default", 5), NV("Faint", 4), NV("Strong Blue", 2) >>],
       [data_type |-> "J", type_configuration |-> << NV("default", 4), NV("Faint", 5), NV("Strong Blue", 5) >>] >>

\* config.json, characteristic_name "KEYS TO SYMBOLS"; value is type_configuration[0].value
KeysToSymbols ==
    << [data_type |-> "PINPOINT", value |-> 5],
       [data_type |-> "CLOUD", value |-> 4],
       [data_type |-> "NATURAL", value |-> 4],
       [data_type |-> "FEATHER", value |-> 3],
       [data_type |-> "INDENTED NATURAL", value |-> 2],
       [data_type |-> "TWINNING WISP", value |-> 2],
       [data_type |-> "CAVITY", value |-> 0] >>

\* config.json, characteristic_name "culet": one sub-table per shape family
Culet ==
    << [shape |-> "round", value |-> << NV("None", 5), NV("Very Small", 4), NV("Large", 1) >>],
       [shape |-> "princess", value |-> << NV("None", 5), NV("Small", 3) >>],
       [shape |-> "asscher", value |-> << NV("None", 5), NV("Small", 3) >>],
       [shape |-> "emerald", value |-> << NV("None", 5), NV("Small", 3) >>],
       [shape |-> "radiant", value |-> << NV("None", 5), NV("Small", 4) >>],
       [shape |-> "pear", value |-> << NV("None", 5), NV("Small", 3) >>],
       [shape |-> "cushion", value |-> << NV("None", 5), NV("Small", 4) >>],
       [shape |-> "heart", value |-> << NV("None", 5), NV("Small", 3) >>] >>

\* config.json, characteristic_name "measurement": minimum diameter (hundredths of a mm)
\* per carat bucket
MeasurementTable ==
    << [weight |-> "0.01-0.29", value |-> 300],
       [weight |-> "0.30-0.49", value |-> 400],
       [weight |-> "0.50-0.99", value |-> 500],
       [weight |-> "1.00-1.99", value |-> 630],
       [weight |-> "2.00-2.99", value |-> 810] >>

KV(k, v) == [key |-> k, value |-> v]

\* config.json, characteristic_name "pavillion_angle": graduated curve outside the window
PavillionAngleCurve ==
    << KV("40.0-40.5", 4), KV("41.1-41.4", 3), KV("41.5-42.0", 2), KV("39.0", 1) >>

\* config.json, characteristic_name "round_crown"
RoundCrownCurve ==
    << KV("33.0-33.9", 4), KV("35.1-36.0", 3), KV("32.0", 1) >>

(***************************************************************************)
(* Characteristic lookups                                                  *)
(***************************************************************************)
\* index of the first element of seq that satisfies P, 0 when there is none
FirstIdx(seq, P(_)) == FirstOf({i \in 1..Len(seq) : P(seq[i])})

\* the value of row k of a table, 0 for k = 0
ValueAt(table, k) == IF k = 0 THEN 0 ELSE table[k].value

\* the None that a lookup may return where the caller tests "value is None"
NoValue == -1

check_fluorescence(flour_value, Color_Grade) ==
    LET ls == SplitWs(flour_value)
        data_f == IF Len(ls) = 2 /\ PyLower(ls[1]) # "very" THEN flour_value
                  ELSE IF PyLower(flour_value) = "none" THEN "default"
                  ELSE flour_value
        IsColor(f) == RStrip(Color_Grade) = f.data_type
        fi == FirstIdx(Fluorescence, IsColor)
        IsName(c) == PyLower(c.name) = PyLower(data_f)
    IN  IF fi = 0 THEN NoValue
        ELSE LET cfg == Fluorescence[fi].type_configuration
                 ci == FirstIdx(cfg, IsName)
             IN  IF ci = 0 THEN NoValue ELSE cfg[ci].value

\* the row of the graded table for a grade text, 0 when there is none
GradeRow(value) ==
    LET IsGrade(i) == PyLower(i.data_type) = PyLower(value)
    IN  FirstIdx(RoundScore, IsGrade)

\* check_polish that gives a grade without a row the marks of the first row
check_polishFirstRow(threshold, value) ==
    RoundScore[IF GradeRow(value) = 0 THEN 1 ELSE GradeRow(value)].type_configuration[2]

check_polish(threshold, value) ==
    IF GradeRow(value) = 0 THEN 0 ELSE RoundScore[GradeRow(value)].type_configuration[2]

check_symmetry(threshold, value) ==
    IF GradeRow(value) = 0 THEN 0 ELSE RoundScore[GradeRow(value)].type_configuration[3]

check_cut_grade(threshold, value) ==
    IF GradeRow(value) = 0 THEN 0 ELSE RoundScore[GradeRow(value)].type_configuration[2]

GirdleLookup(table, value) ==
    ValueAt(table, FirstOf({i \in 1..Len(table) : PyLower(table[i].name) = PyLower(value)}))

assign_girdle_value(value) == GirdleLookup(GirdleThickness, value)

assign_girdle_value_for_heart(value) == GirdleLookup(GirdleThicknessHeart, value)

\* the two loops of check_culet over info, the sub-tables of the "culet" entry
CuletValue(info, shape, culet_value) ==
    LET Hit(d) == /\ Contains(Strip(PyLower(shape)), PyLower(d.shape))
                  /\ \E k \in 1..Len(d.value) : PyUpper(d.value[k].name) = PyUpper(culet_value)
        di == FirstIdx(info, Hit)
        IsName(v) == PyUpper(v.name) = PyUpper(culet_value)
    IN  IF di = 0 THEN 0 ELSE info[di].value[FirstIdx(info[di].value, IsName)].value

check_culet(shape, culet_value) == CuletValue(Culet, shape, culet_value)

\* the loop of assign_measurement_value from row i on; value and carat in hundredths
RECURSIVE MeasurementLoop(_, _, _, _)
MeasurementLoop(i, value, carat, assigned) ==
    IF i > Len(MeasurementTable) THEN assigned
    ELSE IF InWindow(carat, MeasurementTable[i].weight) /\ value >= MeasurementTable[i].value
    THEN 5
    ELSE MeasurementLoop(i + 1, value, carat,
                         IF carat >= 2 * Scale /\ value >= 8 * Scale THEN 5 ELSE assigned)

assign_measurement_value(value, carat) == MeasurementLoop(1, value, carat, 0)

\* does the key of a graduated curve, a range "lo-hi" or one number, hold pdf_data
KeyHolds(key, pdf_data) ==
    IF Len(SplitOn(key, "-")) = 2 THEN InWindow(pdf_data, key)
    ELSE pdf_data = PyFloatOf(SplitOn(key, "-")[1]).v

\* the score of the first key of a graduated curve that holds pdf_data, 0 when none does
CurveLookup(curve, pdf_data) ==
    ValueAt(curve, FirstOf({i \in 1..Len(curve) : KeyHolds(curve[i].key, pdf_data)}))

get_pavillion_angle(pdf_data) == CurveLookup(PavillionAngleCurve, pdf_data)

get_round_crown(pdf_data) == CurveLookup(RoundCrownCurve, pdf_data)

(***************************************************************************)
(* check_symbol                                                            *)
(***************************************************************************)
\* next(filter(lambda data: data["data_type"] == name, info), None): the configured
\* score of the name, NoValue when the table has no such row
SymbolValue(name) ==
    LET IsRow(r) == r.data_type = name
        k == FirstIdx(KeysToSymbols, IsRow)
    IN  IF k = 0 THEN NoValue ELSE KeysToSymbols[k].value

\* score[-1] if score else 5
LastOrDefault(score) == IF score = <<>> THEN 5 ELSE score[Len(score)]

\* min(score) if score else 5
MinOrDefault(score) ==
    IF score = <<>> THEN 5
    ELSE CHOOSE m \in {score[i] : i \in 1..Len(score)} :
             \A i \in 1..Len(score) : m <= score[i]

\* the upper-cased text with the three two-word names joined
JoinedUpper(data_type_to_fetch) ==
    Replace(Replace(Replace(PyUpper(data_type_to_fetch),
                            "TWINNING WISP", "TWINNINGWISP"),
                    "INDENTED NATURAL", "INDENTEDNATURAL"),
            "GROWTH REMNANT", "GROWTHREMNANT")

SymbolTokens(data_type_to_fetch) ==
    IF Contains(JoinedUpper(data_type_to_fetch), ",")
    THEN SplitOn(JoinedUpper(data_type_to_fetch), ",")
    ELSE SplitWs(JoinedUpper(data_type_to_fetch))

\* the token d of the loop after the "indented" rewriting
IndentedFold(d) == IF Strip(PyLower(d)) = "indented" THEN "Indented Natural" ELSE d

\* does the token at position id set ind_flag
SetsIndFlag(data_ls, id) ==
    /\ Strip(PyLower(data_ls[id])) = "indented"
    /\ id + 1 <= Len(data_ls)
    /\ Strip(PyLower(data_ls[id + 1])) = "natural"

\* the name looked up for token d while ind_flag is False
NameNoFlag(d) ==
    LET n == Replace(Strip(PyUpper(d)), " ", "")
    IN  IF n = "TWINNINGWISP" THEN "TWINNING WISP"
        ELSE IF n = "INDENTEDNATURAL" THEN "INDENTED NATURAL"
        ELSE n

\* the name looked up for token d once ind_flag is True
NameFlag(d) ==
    LET n == Strip(PyUpper(d))
    IN  IF n = "TWINNINGWISP" THEN "TWINNING WISP" ELSE n

\* the for loop of check_symbol from position id on
RECURSIVE SymbolLoop(_, _, _, _)
SymbolLoop(data_ls, id, ind_flag, score) ==
    IF id > Len(data_ls) THEN score
    ELSE LET flag == ind_flag \/ SetsIndFlag(data_ls, id)
             d == IndentedFold(data_ls[id])
             name == IF flag THEN NameFlag(d) ELSE NameNoFlag(d)
             looked == flag \/ d # ""
             hit == looked /\ SymbolValue(name) # NoValue
         IN  SymbolLoop(data_ls, id + 1, flag,
                        IF hit THEN Append(score, SymbolValue(name)) ELSE score)

check_symbol(data_type_to_fetch) ==
    LET data_ls == SymbolTokens(data_type_to_fetch)
        up == JoinedUpper(data_type_to_fetch)
        single == IF up = "TWINNINGWISP" THEN "TWINNING WISP"
                  ELSE IF up = "INDENTEDNATURAL" THEN "INDENTED NATURAL"
                  ELSE up
    IN  IF Len(data_ls) = 1
        THEN IF SymbolValue(single) # NoValue THEN SymbolValue(single) ELSE 5
        ELSE MinOrDefault(SymbolLoop(data_ls, 1, FALSE, <<>>))

(***************************************************************************)
(* Records and the evaluation state                                        *)
(***************************************************************************)
\* the keys of a certificate record that the engine reads or writes
PdfKeys ==
    {"shape", "carat", "color_grade", "cut", "polish", "symmetry", "fluorescence",
     "girdle", "culet", "measurement", "table_size", "depth", "crown_angle",
     "crown_height", "pavilion_angle", "pavilion_height", "star_length",
     "lower_half_length", "key_to_symbol", "length_width_ratio"}

\* the keys of an affiliate (override) record that the engine reads
AffKeys ==
    {"shape", "carat", "table_size", "griddle", "depth", "measurement", "culet",
     "color", "polish", "symmetry", "fluorescence", "cut", "pavilion_height",
     "pavilion_angle", "crown_height", "crown_angle", "girdle", "color_grade"}

\* the keys of final_dict
ScoreKeys ==
    {"cut_score", "culet_score", "depth_score", "fluorescence_score", "girdle_score",
     "polish_score", "symmetry_score", "table_size_score", "measurement_score",
     "pavilion_angle_score", "key_to_symbol_score", "pavilion_height_score",
     "length_width_ratio_score", "crown_angle_score"}

\* "affiliate_process_data is not None and affiliate_process_data"
AffTruthy(aff) == aff.kind = "dict"

\* the spellings of "no value" that the merge tests, per field
SentAll == {"false", "False", "", "none", "None", "null", "Null"}
SentShape == {"", "null", "Null", "False", "false"}
SentCarat == {"false", "", "none", "None", "null", "Null"}
SentTable == {"Null", "none", "", "None", "false", "False"}
SentCulet == {"", "false", "False", "null", "Null"}
SentFluor == {"", "False", "false", "null", "Null"}
SentPavilion == SentAll \cup {"0.0000"}

\* "aff[k] is not None and aff[k] != <each spelling>"
NonSentinel(v, sent) == v # PyNone /\ v \notin sent

MR(from, to, sent) == [from |-> from, to |-> to, sent |-> sent]

\* the merge block of fetch_data
MergeRulesFancy ==
    << MR("shape", "shape", SentShape), MR("carat", "carat", SentCarat),
       MR("table_size", "table_size", SentTable), MR("griddle", "girdle", SentAll),
       MR("depth", "depth", SentAll), MR("measurement", "measurement", SentAll),
       MR("culet", "culet", SentCulet), MR("color", "color_grade", SentAll),
       MR("polish", "polish", SentAll), MR("symmetry", "symmetry", SentAll),
       MR("fluorescence", "fluorescence", SentFluor), MR("cut", "cut", SentAll) >>

\* the merge block of fetch_data_round
MergeRulesRound ==
    MergeRulesFancy \o
    << MR("pavilion_height", "pavilion_height", SentPavilion),
       MR("pavilion_angle", "pavilion_angle", SentPavilion),
       MR("crown_height", "crown_height", SentAll),
       MR("crown_angle", "crown_angle", SentAll) >>

\* a merge that takes the affiliate value only where the record has none
MergeFieldsGapsOnly(pdf, aff, rules) ==
    IF ~AffTruthy(aff) THEN pdf
    ELSE [k \in PdfKeys |->
            IF /\ pdf[k] \in {Missing, PyNone, ""}
               /\ \E i \in 1..Len(rules) :
                      rules[i].to = k /\ NonSentinel(aff.d[rules[i].from], rules[i].sent)
            THEN aff.d[rules[CHOOSE i \in 1..Len(rules) : rules[i].to = k].from]
            ELSE pdf[k]]

\* pdf_dc after the merge block: every rule whose affiliate value is given overwrites
\* the field of the record
MergeFields(pdf, aff, rules) ==
    IF ~AffTruthy(aff) THEN pdf
    ELSE [k \in PdfKeys |->
            IF \E i \in 1..Len(rules) :
                   rules[i].to = k /\ NonSentinel(aff.d[rules[i].from], rules[i].sent)
            THEN aff.d[rules[CHOOSE i \in 1..Len(rules) : rules[i].to = k].from]
            ELSE pdf[k]]

\* the state of one evaluation: the record being rewritten, final_dict (tally is the
\* set of its keys), the locals, and how the call has ended so far
St0(pdf_dc, aff, shape) ==
    [pdf |-> pdf_dc, aff |-> aff, shape |-> shape, pdf_dc_new |-> pdf_dc,
     merged |-> pdf_dc,
     tally |-> {}, score |-> [k \in ScoreKeys |-> 0],
     exc |-> FALSE, status |-> FALSE,
     type |-> <<>>, last_mea |-> PyNone,
     reqk |-> "unbound", req |-> data[1], ratiok |-> "unbound", ratio |-> <<>>,
     lwk |-> "unbound", lw |-> 0,
     girdle_gia |-> "", polish_value |-> "", symmetry_value |-> "",
     cut_grade_value |-> "", caratk |-> "num", carat |-> 0]

Raise(st) == [st EXCEPT !.exc = TRUE]

SetPdf(st, k, v) == [st EXCEPT !.pdf[k] = v]

SetScore(st, k, v) == [st EXCEPT !.tally = @ \cup {k}, !.score[k] = v]

\* run block B unless the call has already ended
Step(B(_), st) == IF st.exc \/ st.status THEN st ELSE B(st)

\* "k in pdf_dc and pdf_dc[k] is not None"
Has(st, k) == st.pdf[k] # Missing /\ st.pdf[k] # PyNone

(***************************************************************************)
(* Blocks shared by the two paths                                          *)
(***************************************************************************)
\* DigisationScore with overall_marks the count of the tally, not five times it
DigisationScorePerKey(st) ==
    LET keys == st.tally
        RECURSIVE Sum(_)
        Sum(S) == IF S = {} THEN 0
                  ELSE LET k == CHOOSE e \in S : TRUE IN st.score[k] + Sum(S \ {k})
        total_marks == Sum(keys)
        overall_marks == Cardinality(keys)
    IN  FloatRepr(RoundDiv(total_marks * 100 * Scale, overall_marks)) \o "%"

\* total_marks, overall_marks, percent and the formatted digisation_score
DigisationScore(st) ==
    LET keys == st.tally
        RECURSIVE Sum(_)
        Sum(S) == IF S = {} THEN 0
                  ELSE LET k == CHOOSE e \in S : TRUE IN st.score[k] + Sum(S \ {k})
        total_marks == Sum(keys)
        overall_marks == Cardinality(keys) * 5
    IN  FloatRepr(RoundDiv(total_marks * 100 * Scale, overall_marks)) \o "%"

\* NotApplicableScores of a dict_np that tests "not score_dict[s]": a score of 0 is
\* tagged as well
NotApplicableScoresFalsy(st) ==
    {k \in {"cut_score", "crown_angle_score", "pavilion_height_score",
             "pavilion_angle_score", "measurement_score", "length_width_ratio_score"} :
        k \notin st.tally \/ st.score[k] = 0}

\* the keys of the score record that dict_np tags "Not Applicable"
NotApplicableScores(st) ==
    {"cut_score", "crown_angle_score", "pavilion_height_score", "pavilion_angle_score",
     "measurement_score", "length_width_ratio_score"} \ st.tally

\* dict_np on the record: a decorative field that is None or absent is tagged
DictNpRecord(pdf) ==
    [k \in PdfKeys |->
        IF k \in {"cut", "crown_angle", "pavilion_height", "pavilion_angle",
                  "crown_height", "star_length", "lower_half_length"}
           /\ pdf[k] \in {PyNone, Missing}
        THEN "Not Applicable" ELSE pdf[k]]

\* what a call hands back: kind "score" is (score_dict, pdf_dc_new, pdf_dc), kind
\* "status" is the {"Status": ...} result, kind "raise" an exception; pdf_dc is the
\* dict of the caller after the call in every case.  path and family tell which
\* evaluation path ran and the requirement key (type[0]) it used
Outcome(st, path) ==
    [kind |-> IF st.exc THEN "raise" ELSE IF st.status THEN "status" ELSE "score",
     path |-> path,
     family |-> IF st.type = <<>> THEN "" ELSE st.type[1],
     tally |-> IF st.exc \/ st.status THEN {} ELSE st.tally,
     score |-> IF st.exc \/ st.status THEN [k \in ScoreKeys |-> 0] ELSE st.score,
     digisation_score |-> IF st.exc \/ st.status THEN "" ELSE DigisationScore(st),
     na |-> IF st.exc \/ st.status THEN {} ELSE NotApplicableScores(st),
     pdf_dc_new |-> st.pdf_dc_new,
     pdf_dc |-> IF st.exc \/ st.status THEN st.pdf ELSE DictNpRecord(st.pdf),
     merged |-> st.merged]

\* a grade field (polish, symmetry, cut) of the round path: the value to look up
\* and the field of the record
GradeField(st, k, ak) ==
    IF Has(st, k) THEN [v |-> st.pdf[k], p |-> st.pdf[k]]
    ELSE IF AffTruthy(st.aff) /\ NonSentinel(st.aff.d[ak], SentAll)
    THEN [v |-> st.aff.d[ak], p |-> st.aff.d[ak]]
    ELSE [v |-> "None", p |-> "ND"]

\* a range-tested percentage of the round path that is scored 0 for "0", "ND" and
\* "Not Applicable" (table_size, depth)
RangeField(st, k, sk, window, sent) ==
    IF Has(st, k)
    THEN IF st.pdf[k] \in {"0", "ND", "Not Applicable"}
         THEN SetScore(st, sk, IF InWindow(0, window) THEN 5 ELSE 0)
         ELSE IF ~FirstNumber(st.pdf[k]).ok THEN Raise(st)
         ELSE SetScore(st, sk, IF InWindow(FirstNumber(st.pdf[k]).v, window) THEN 5 ELSE 0)
    ELSE IF AffTruthy(st.aff) /\ NonSentinel(st.aff.d[k], sent)
    THEN LET s1 == SetPdf(st, k, st.aff.d[k])
             v == st.aff.d[k]
         IN  IF v = "0" /\ k = "table_size"
             THEN SetScore(s1, sk, IF InWindow(0, window) THEN 5 ELSE 0)
             ELSE IF ~FirstNumber(v).ok THEN Raise(s1)
             ELSE SetScore(s1, sk, IF InWindow(FirstNumber(v).v, window) THEN 5 ELSE 0)
    ELSE SetScore(SetPdf(st, k, "ND"), sk, 0)

\* the fluorescence score of a pair that is not None
FluorScore(fl, color) ==
    IF check_fluorescence(fl, color) = NoValue THEN 0 ELSE check_fluorescence(fl, color)

(***************************************************************************)
(* fetch_data_round                                                        *)
(***************************************************************************)
\* the merge block
RMerge(st) ==
    LET m == MergeFields(st.pdf, st.aff, MergeRulesRound)
    IN  [st EXCEPT !.pdf = m, !.merged = m]

\* first token of the measurement
LastMea(m) == SplitOn(SplitOn(SplitOn(m, "*")[1], "x")[1], "X")[1]

\* "if 'shape' in pdf_dc", type and last_mea
RShape(st) ==
    IF st.pdf["shape"] = Missing THEN [st EXCEPT !.status = TRUE]
    ELSE IF st.pdf["shape"] = PyNone THEN Raise(st)
    ELSE LET s1 == [st EXCEPT !.type = SplitWs(st.pdf["shape"])]
         IN  IF st.pdf["measurement"] # Missing
             THEN IF st.pdf["measurement"] # PyNone
                  THEN [s1 EXCEPT !.last_mea = LastMea(st.pdf["measurement"])]
                  ELSE s1
             ELSE IF AffTruthy(st.aff) /\ NonSentinel(st.aff.d["measurement"], SentAll)
                  THEN [s1 EXCEPT !.pdf["measurement"] = st.aff.d["measurement"],
                                  !.last_mea = LastMea(st.aff.d["measurement"])]
                  ELSE s1

\* the requirement of the shape and its windows
RReq(st) ==
    LET IsType(r) == IF st.shape = PyNone THEN r.Diamond_type = PyLower(st.type[1])
                     ELSE r.Diamond_type = st.shape
        k == FirstIdx(data, IsType)
    IN  IF st.shape = PyNone /\ st.type = <<>> THEN Raise(st)
        ELSE IF k = 0 THEN Raise([st EXCEPT !.reqk = "None"])
        ELSE [st EXCEPT !.reqk = "dict", !.req = data[k]]

\* "if '(' in gridle_ls[-2]: del gridle_ls[-2]" on a list of two words or more
DropParen(ls) ==
    IF Contains(ls[Len(ls) - 1], "(") THEN SubSeq(ls, 1, Len(ls) - 2) \o <<ls[Len(ls)]>>
    ELSE ls

\* "if '%' in gridle_ls[-1]: del gridle_ls[-1]"
DropPercent(ls) ==
    IF Contains(ls[Len(ls)], "%") THEN SubSeq(ls, 1, Len(ls) - 1) ELSE ls

\* girdle_gia of a girdle text: a "(...)" word before the last and a last word with
\* "%" are dropped; ok = FALSE is the IndexError of a blank text
GirdleGia(g) ==
    IF Len(SplitWs(g)) = 1 THEN [ok |-> TRUE, v |-> g]
    ELSE IF Len(SplitWs(g)) = 0 THEN [ok |-> FALSE, v |-> ""]
    ELSE [ok |-> TRUE, v |-> Join(DropPercent(DropParen(SplitWs(g))), " ")]

\* girdle_gia of the girdle text g, the IndexError when g is blank
SetGirdleGia(st, g) ==
    IF GirdleGia(g).ok THEN [st EXCEPT !.girdle_gia = GirdleGia(g).v] ELSE Raise(st)

RGirdle(st) ==
    IF Has(st, "girdle") THEN SetGirdleGia(st, st.pdf["girdle"])
    ELSE IF AffTruthy(st.aff) /\ NonSentinel(st.aff.d["griddle"], SentAll)
    THEN IF st.aff.d["girdle"] = Missing THEN Raise(st)
         ELSE IF st.aff.d["girdle"] = PyNone
         THEN [st EXCEPT !.pdf["girdle"] = "ND", !.girdle_gia = "None"]
         ELSE SetGirdleGia(SetPdf(st, "girdle", st.aff.d["girdle"]), st.aff.d["girdle"])
    ELSE [st EXCEPT !.pdf["girdle"] = "ND", !.girdle_gia = "None"]

RGrades(st) ==
    LET po == GradeField(st, "polish", "polish")
        sy == GradeField(st, "symmetry", "symmetry")
        cu == GradeField(st, "cut", "cut")
    IN  [st EXCEPT !.pdf["polish"] = po.p, !.polish_value = po.v,
                   !.pdf["symmetry"] = sy.p, !.symmetry_value = sy.v,
                   !.pdf["cut"] = cu.p, !.cut_grade_value = cu.v]

\* the culet block of fetch_data_round, check_culet going over the sub-tables info
RCuletFrom(info, st) ==
    IF Has(st, "culet")
    THEN SetScore(st, "culet_score", CuletValue(info, "round", st.pdf["culet"]))
    ELSE IF AffTruthy(st.aff) /\ NonSentinel(st.aff.d["culet"], SentCulet)
    THEN SetScore(SetPdf(st, "culet", st.aff.d["culet"]), "culet_score",
                  CuletValue(info, "round", st.aff.d["culet"]))
    ELSE SetScore(SetPdf(st, "culet", "ND"), "culet_score", 0)

RCulet(st) == RCuletFrom(Culet, st)

\* carat: the float of the record's text, the text itself when it does not parse,
\* and the affiliate's text when the affiliate gives one
RCarat(st) ==
    IF st.pdf["carat"] = Missing THEN Raise(st)
    ELSE LET f == IF st.pdf["carat"] = PyNone THEN [ok |-> TRUE, v |-> 0]
                  ELSE PyFloatOf(SplitOn(st.pdf["carat"], " ")[1])
             s1 == [st EXCEPT !.caratk = IF f.ok THEN "num" ELSE "str", !.carat = f.v]
         IN  IF AffTruthy(st.aff)
             THEN IF NonSentinel(st.aff.d["carat"], SentCarat)
                  THEN [s1 EXCEPT !.caratk = "str", !.pdf["carat"] = st.aff.d["carat"]]
                  ELSE [s1 EXCEPT !.pdf["carat"] = PyIntZero]
             ELSE s1

\* RMeasurement without the score of a record that has no measurement
RMeasurementUntallied(st) ==
    IF Has(st, "measurement")
    THEN IF st.last_mea # PyNone /\ PyFloatOf(st.last_mea).ok /\ st.caratk = "num"
         THEN SetScore(st, "measurement_score",
                       assign_measurement_value(PyFloatOf(st.last_mea).v, st.carat))
         ELSE SetScore(st, "measurement_score", 0)
    ELSE SetPdf(st, "measurement", "ND")

\* measurement against the carat table; a diameter or a carat that is not a number
\* is caught and scored 0
RMeasurement(st) ==
    IF Has(st, "measurement")
    THEN IF st.last_mea # PyNone /\ PyFloatOf(st.last_mea).ok /\ st.caratk = "num"
         THEN SetScore(st, "measurement_score",
                       assign_measurement_value(PyFloatOf(st.last_mea).v, st.carat))
         ELSE SetScore(st, "measurement_score", 0)
    ELSE SetScore(SetPdf(st, "measurement", "ND"), "measurement_score", 0)

\* pavilion_height, pavilion_angle and crown_angle: range-tested against window, with
\* the graduated curve (Curve) outside the window; skip holds the texts of the
\* record that count as no value
AngleField(st, k, sk, window, Curve(_), skip) ==
    LET Score(v) == IF InWindow(v, window) THEN 5 ELSE Curve(v)
    IN  IF Has(st, k) /\ st.pdf[k] \notin skip \cup {"ND", "Not Applicable", "1"}
        THEN IF window = Missing \/ ~FirstNumber(st.pdf[k]).ok THEN Raise(st)
             ELSE SetScore(st, sk, Score(FirstNumber(st.pdf[k]).v))
        ELSE IF AffTruthy(st.aff)
        THEN LET v == st.aff.d[k]
                 s1 == SetPdf(st, k, v)
             IN  IF v # PyNone /\ v \notin skip \cup {"1"}
                    /\ ~(k = "crown_angle" /\ v = "ND")
                 THEN IF window = Missing \/ ~FirstNumber(v).ok THEN Raise(s1)
                      ELSE SetScore(s1, sk, Score(FirstNumber(v).v))
                 ELSE SetScore(SetPdf(s1, k, "ND"), sk, 0)
        ELSE SetScore(SetPdf(st, k, "ND"), sk, 0)

NoCurve(v) == 0

RPavilionHeight(st) ==
    AngleField(st, "pavilion_height", "pavilion_height_score", st.req.pavilion_depth,
               NoCurve, {"false", ""})

RPavilionAngle(st) ==
    AngleField(st, "pavilion_angle", "pavilion_angle_score", st.req.pavilion_angle,
               get_pavillion_angle, {"false", ""})

RCrownAngle(st) ==
    AngleField(st, "crown_angle", "crown_angle_score", st.req.crown_angle,
               get_round_crown, {"", "false", "none"})

RTable(st) == RangeField(st, "table_size", "table_size_score", st.req.table, SentTable)

RDepth(st) == RangeField(st, "depth", "depth_score", st.req.depth, SentAll)

\* girdle, polish, symmetry and cut scores
RGirdleScore(st) ==
    LET s1 == IF st.pdf["girdle"] \in {"none", "false", "None"}
              THEN SetPdf(st, "girdle", "ND") ELSE st
    IN  IF s1.pdf["girdle"] \in {"ND", PyNone}
        THEN SetScore(s1, "girdle_score", 0)
        ELSE SetScore(s1, "girdle_score", assign_girdle_value(s1.girdle_gia))

RGradeScores(st) ==
    LET s1 == SetScore(st, "polish_score",
                  IF st.pdf["polish"] \in {"ND", PyNone} THEN 0
                  ELSE check_polish("None", st.polish_value))
        s2 == SetScore(s1, "symmetry_score",
                  IF st.pdf["symmetry"] \in {"ND", PyNone} THEN 0
                  ELSE check_symmetry("None", st.symmetry_value))
    IN  SetScore(s2, "cut_score",
                  IF st.pdf["cut"] \in {"ND", PyNone} THEN 0
                  ELSE check_cut_grade("None", st.cut_grade_value))

\* fluorescence by color grade; without the pair the affiliate's pair is copied
\* unchecked, and a color grade that IS given is overwritten by "ND"
RFluorescence(st) ==
    LET NdFill(s) ==
            LET a == IF s.pdf["fluorescence"] = PyNone
                     THEN SetPdf(s, "fluorescence", "ND") ELSE s
            IN  IF a.pdf["color_grade"] = Missing THEN Raise(a)
                ELSE IF a.pdf["color_grade"] # PyNone THEN SetPdf(a, "color_grade", "ND")
                ELSE a
    IN  IF st.pdf["fluorescence"] = Missing THEN Raise(st)
        ELSE IF st.pdf["fluorescence"] # PyNone /\ st.pdf["color_grade"] = Missing
        THEN Raise(st)
        ELSE IF st.pdf["fluorescence"] # PyNone /\ st.pdf["color_grade"] # PyNone
        THEN SetScore(st, "fluorescence_score",
                      FluorScore(st.pdf["fluorescence"], st.pdf["color_grade"]))
        ELSE IF AffTruthy(st.aff)
        THEN LET s1 == [st EXCEPT !.pdf["fluorescence"] = st.aff.d["fluorescence"],
                                  !.pdf["color_grade"] = st.aff.d["color"]]
             IN  IF s1.pdf["fluorescence"] # PyNone /\ s1.pdf["color_grade"] # PyNone
                 THEN SetScore(s1, "fluorescence_score",
                               FluorScore(s1.pdf["fluorescence"], s1.pdf["color_grade"]))
                 ELSE NdFill(SetScore(s1, "fluorescence_score", 0))
        ELSE NdFill(SetScore(st, "fluorescence_score", 0))

RSymbol(st) ==
    IF Has(st, "key_to_symbol")
    THEN SetScore(st, "key_to_symbol_score", check_symbol(st.pdf["key_to_symbol"]))
    ELSE SetScore(st, "key_to_symbol_score", 5)

\* the blocks of fetch_data_round in program order, the last one outermost
RoundBeforeCulet(s0) ==
    Step(RGrades, Step(RGirdle, Step(RReq, Step(RShape, RMerge(s0)))))

RoundAfterCulet(st) ==
    Step(RSymbol, Step(RFluorescence, Step(RGradeScores,
    Step(RGirdleScore, Step(RDepth, Step(RTable,
    Step(RCrownAngle, Step(RPavilionAngle,
    Step(RPavilionHeight, Step(RMeasurement,
    Step(RCarat, st)))))))))))

RoundRun(s0) == RoundAfterCulet(Step(RCulet, RoundBeforeCulet(s0)))

fetch_data_round(pdf_dc, affiliate_process_data, shape) ==
    Outcome(RoundRun(St0(pdf_dc, affiliate_process_data, shape)), "round")

(***************************************************************************)
(* fetch_data                                                              *)
(***************************************************************************)
FMerge(st) ==
    LET m == MergeFields(st.pdf, st.aff, MergeRulesFancy)
    IN  [st EXCEPT !.pdf = m, !.merged = m]

\* the three statements that rewrite type[0] from the shape text, in program order;
\* "" stands for a statement that leaves type[0] alone
Rule1(shape) ==
    IF Contains(shape, "Square Emerald") THEN "asscher"
    ELSE IF Contains(shape, "Square Modified") THEN "princess"
    ELSE ""

Rule2(shape) == IF Contains(PyUpper(shape), "CUT CORNERED RECTANGULAR") THEN "radiant rec" ELSE ""

Rule3(shape, type0) ==
    IF Contains(shape, "CUT EMERALD") THEN "emerald"
    ELSE IF Contains(shape, "Cut-Cornered") /\ Contains(shape, "Rectangular") THEN "radiant rec"
    ELSE IF Contains(shape, "Cut-Cornered ") /\ Contains(shape, "square") THEN "radiant sq"
    ELSE IF PyLower(type0) = "cc" THEN "cushion"
    ELSE IF Contains(PyLower(shape), "cushion") THEN "cushion"
    ELSE IF Contains(shape, "Cut-Cornered ") \/ Contains(shape, "Rectangular") THEN "radiant rec"
    ELSE IF Contains(shape, "Cut-Cornered ") \/ Contains(shape, "square") THEN "radiant sq"
    ELSE IF Contains(PyLower(shape), "radiant") THEN "radiant sq"
    ELSE IF Contains(PyLower(shape), "brilliant pear") THEN "pear"
    ELSE IF Contains(PyLower(shape), "pear brilliant") THEN "pear"
    ELSE ""

\* type[0] when the third statement starts
TypeBefore3(shape) ==
    IF Rule2(shape) # "" THEN Rule2(shape)
    ELSE IF Rule1(shape) # "" THEN Rule1(shape)
    ELSE SplitWs(shape)[1]

\* type[0] after the three statements; shape is a text with at least one word
Classify(shape) ==
    IF Rule3(shape, TypeBefore3(shape)) # "" THEN Rule3(shape, TypeBefore3(shape))
    ELSE TypeBefore3(shape)

\* does the third statement take its 'cushion' in shape.lower() branch, which also
\* rewrites the shape of the record
CushionByText(shape) ==
    /\ ~Contains(shape, "CUT EMERALD")
    /\ ~(Contains(shape, "Cut-Cornered") /\ Contains(shape, "Rectangular"))
    /\ ~(Contains(shape, "Cut-Cornered ") /\ Contains(shape, "square"))
    /\ PyLower(TypeBefore3(shape)) # "cc"
    /\ Contains(PyLower(shape), "cushion")

\* "if 'shape' in pdf_dc", the classification of the shape text; a text without a
\* word ends in the IndexError of type[0]
FShape(st) ==
    IF st.pdf["shape"] = Missing THEN [st EXCEPT !.status = TRUE]
    ELSE IF st.pdf["shape"] = PyNone \/ SplitWs(st.pdf["shape"]) = <<>> THEN Raise(st)
    ELSE LET shape == st.pdf["shape"]
         IN  [st EXCEPT !.type = <<Classify(shape)>> \o Tail(SplitWs(shape)),
                        !.pdf["shape"] = IF CushionByText(shape) THEN "cushion" ELSE shape]

\* is the record handed to fetch_data_round
IsRoundShape(st) == Contains(PyLower(st.pdf["shape"]), "round")

\* measurements: the text split at "x" after "," -> ".", "*" -> "x" and lower(), or
\* split at "X" when that gave one part
Measurements(m) ==
    IF Len(SplitOn(PyLower(Replace(Replace(m, ",", "."), "*", "x")), "x")) = 1
    THEN SplitOn(m, "X")
    ELSE SplitOn(PyLower(Replace(Replace(m, ",", "."), "*", "x")), "x")

\* float(l[i]) of a list that must hold need parts; ok = FALSE is the exception
FloatAt(l, i, need) == IF Len(l) >= need THEN PyFloatOf(l[i]) ELSE [ok |-> FALSE, v |-> 0]

\* p / q rounded to two decimals, p and q in hundredths, q # 0
Quot(p, q) ==
    IF (p < 0) = (q < 0)
    THEN RoundDiv((IF p < 0 THEN 0 - p ELSE p) * Scale, IF q < 0 THEN 0 - q ELSE q)
    ELSE 0 - RoundDiv((IF p < 0 THEN 0 - p ELSE p) * Scale, IF q < 0 THEN 0 - q ELSE q)

\* float(a) / float(b); ok = FALSE is the ValueError or the ZeroDivisionError
Ratio(a, b) ==
    IF a.ok /\ b.ok /\ b.v # 0 THEN [ok |-> TRUE, v |-> Quot(a.v, b.v)]
    ELSE [ok |-> FALSE, v |-> 0]

\* the first try when it gives a ratio, else the second
FirstRatio(r1, r2) == IF r1.ok THEN r1 ELSE r2

\* lw_ratio of a measurement text: the first two "x" parts, or the first two words of
\* the first part, divided and rounded to two decimals; ok = FALSE when neither parses
ParseRatio(m) ==
    FirstRatio(Ratio(FloatAt(Measurements(m), 1, 1), FloatAt(Measurements(m), 2, 2)),
               Ratio(FloatAt(SplitWs(Measurements(m)[1]), 1, 2),
                     FloatAt(SplitWs(Measurements(m)[1]), 2, 2)))

\* the affiliate's measurement in place of one that gave no ratio
FMeasurementFromAff(s) ==
    IF AffTruthy(s.aff) /\ NonSentinel(s.aff.d["measurement"], SentAll)
    THEN IF ParseRatio(s.aff.d["measurement"]).ok
         THEN [s EXCEPT !.pdf["measurement"] = s.aff.d["measurement"],
                        !.lwk = "dec", !.lw = ParseRatio(s.aff.d["measurement"]).v]
         ELSE [s EXCEPT !.pdf["measurement"] = "ND", !.lwk = "ND"]
    ELSE SetPdf(s, "measurement", "ND")

\* the measurement block: lw_ratio, or measurement "ND"
FMeasurement(st) ==
    IF st.pdf["measurement"] = Missing THEN Raise(st)
    ELSE IF st.pdf["measurement"] = PyNone \/ ~ParseRatio(st.pdf["measurement"]).ok
    THEN FMeasurementFromAff(IF st.pdf["measurement"] = PyNone THEN st
                             ELSE [st EXCEPT !.pdf["measurement"] = "ND", !.lwk = "ND"])
    ELSE [st EXCEPT !.lwk = "dec", !.lw = ParseRatio(st.pdf["measurement"]).v]

\* the requirement of type[0] and its length_width_ratio window
FReq(st) ==
    IF st.shape = PyNone /\ ~Contains(st.pdf["shape"], "not")
    THEN LET IsType(r) == r.Diamond_type = PyLower(st.type[1])
             k == FirstIdx(data, IsType)
         IN  IF k = 0 THEN [st EXCEPT !.reqk = "None", !.ratiok = "None"]
             ELSE IF data[k].length_width_ratio = Missing
             THEN [st EXCEPT !.reqk = "dict", !.req = data[k], !.ratiok = "None"]
             ELSE [st EXCEPT !.reqk = "dict", !.req = data[k], !.ratiok = "list",
                             !.ratio = SplitOn(data[k].length_width_ratio, "-")]
    ELSE st

\* girdle_gia, polish_value, symmetry_value and the carat of the fancy path
FTextField(st, k, ak, lower) ==
    IF st.pdf[k] # PyNone
    THEN [v |-> IF lower THEN PyLower(st.pdf[k]) ELSE st.pdf[k], p |-> st.pdf[k]]
    ELSE IF AffTruthy(st.aff) /\ NonSentinel(st.aff.d[ak], SentAll)
    THEN [v |-> IF lower THEN PyLower(st.aff.d[ak]) ELSE st.aff.d[ak], p |-> st.aff.d[ak]]
    ELSE [v |-> "None", p |-> "ND"]

FTexts(st) ==
    IF st.pdf["girdle"] = Missing THEN Raise(st)
    ELSE LET gi == FTextField(st, "girdle", "griddle", FALSE)
             s1 == [st EXCEPT !.pdf["girdle"] = gi.p, !.girdle_gia = gi.v]
         IN  IF st.pdf["polish"] = Missing THEN Raise(s1)
             ELSE LET po == FTextField(s1, "polish", "polish", TRUE)
                      s2 == [s1 EXCEPT !.pdf["polish"] = po.p, !.polish_value = po.v]
                  IN  IF st.pdf["symmetry"] = Missing THEN Raise(s2)
                      ELSE LET sy == FTextField(s2, "symmetry", "symmetry", FALSE)
                               s3 == [s2 EXCEPT !.pdf["symmetry"] = sy.p,
                                                !.symmetry_value = sy.v]
                           IN  IF st.pdf["carat"] = Missing THEN Raise(s3)
                               ELSE IF st.pdf["carat"] = PyNone /\ AffTruthy(st.aff)
                                       /\ st.aff.d["carat"] # PyNone
                               THEN SetPdf(s3, "carat", st.aff.d["carat"])
                               ELSE s3

FCulet(st) ==
    IF Has(st, "culet")
    THEN SetScore(st, "culet_score", check_culet(st.type[1], st.pdf["culet"]))
    ELSE IF AffTruthy(st.aff) /\ NonSentinel(st.aff.d["culet"], SentCulet)
    THEN SetScore(SetPdf(st, "culet", st.aff.d["culet"]), "culet_score",
                  check_culet(st.type[1], st.aff.d["culet"]))
    ELSE SetScore(SetPdf(st, "culet", "ND"), "culet_score", 0)

\* FRatioScore that tallies the ratio only when one was computed
FRatioScoreWhenComputed(st) ==
    IF st.ratiok = "None" THEN st
    ELSE IF st.ratiok = "unbound" \/ st.lwk # "dec" \/ Len(st.ratio) < 2
            \/ ~PyFloatOf(st.ratio[1]).ok
    THEN st
    ELSE IF st.lw < PyFloatOf(st.ratio[1]).v
    THEN SetScore(st, "length_width_ratio_score", 0)
    ELSE IF ~PyFloatOf(st.ratio[2]).ok THEN SetScore(st, "length_width_ratio_score", 0)
    ELSE SetScore(st, "length_width_ratio_score",
                  IF st.lw <= PyFloatOf(st.ratio[2]).v THEN 5 ELSE 0)

\* the length/width ratio against its window: nothing is tallied when ratio is None;
\* a ratio that is unbound or "ND" (and an unbound window) is caught and scored 0
FRatioScore(st) ==
    IF st.ratiok = "None" THEN st
    ELSE IF st.ratiok = "unbound" \/ st.lwk # "dec" \/ Len(st.ratio) < 2
            \/ ~PyFloatOf(st.ratio[1]).ok
    THEN SetScore(st, "length_width_ratio_score", 0)
    ELSE IF st.lw < PyFloatOf(st.ratio[1]).v
    THEN SetScore(st, "length_width_ratio_score", 0)
    ELSE IF ~PyFloatOf(st.ratio[2]).ok THEN SetScore(st, "length_width_ratio_score", 0)
    ELSE SetScore(st, "length_width_ratio_score",
                  IF st.lw <= PyFloatOf(st.ratio[2]).v THEN 5 ELSE 0)

\* table_size and depth of the fancy path; strip is the split("%")[0] of table_size
FRangeField(st, k, sk, strip) ==
    IF st.pdf[k] = Missing THEN Raise(st)
    ELSE IF st.pdf[k] # PyNone
    THEN IF st.reqk # "dict" THEN Raise(st)
         ELSE LET window == st.req[IF k = "table_size" THEN "table" ELSE k]
                  v == IF strip THEN SplitOn(st.pdf[k], "%")[1] ELSE st.pdf[k]
                  s1 == SetPdf(st, k, v)
              IN  IF v \in {"0", "ND", "Not Applicable"}
                  THEN SetScore(s1, sk, IF InWindow(0, window) THEN 5 ELSE 0)
                  ELSE IF ~FirstNumber(v).ok THEN Raise(s1)
                  ELSE SetScore(s1, sk, IF InWindow(FirstNumber(v).v, window) THEN 5 ELSE 0)
    ELSE IF AffTruthy(st.aff)
            /\ NonSentinel(st.aff.d[k], IF k = "table_size" THEN SentTable ELSE SentAll)
    THEN LET v == IF strip THEN SplitOn(st.aff.d[k], "%")[1] ELSE st.aff.d[k]
             s1 == SetPdf(st, k, v)
         IN  IF st.reqk # "dict" THEN Raise(s1)
             ELSE IF ~FirstNumber(st.aff.d[k]).ok THEN Raise(s1)
             ELSE SetScore(s1, sk,
                           IF InWindow(FirstNumber(st.aff.d[k]).v,
                                       st.req[IF k = "table_size" THEN "table" ELSE k])
                           THEN 5 ELSE 0)
    ELSE SetScore(SetPdf(st, k, "ND"), sk, 0)

FTable(st) == FRangeField(st, "table_size", "table_size_score", TRUE)

FDepth(st) == FRangeField(st, "depth", "depth_score", FALSE)

\* the shape of the record is overwritten by the affiliate's, and the ratio is
\* written to the record
FShapeBack(st) ==
    LET s1 == IF AffTruthy(st.aff) /\ st.aff.d["shape"] # PyNone
              THEN SetPdf(st, "shape", st.aff.d["shape"]) ELSE st
    IN  IF s1.pdf["measurement"] \in {"ND", PyNone} THEN s1
        ELSE IF s1.ratiok = "unbound" THEN Raise(s1)
        ELSE IF s1.ratiok = "None" THEN s1
        ELSE SetPdf(s1, "length_width_ratio", PyFloat)

FGirdleScore(st) ==
    LET s1 == IF st.pdf["girdle"] \in {"none", "false", "None"}
              THEN SetPdf(st, "girdle", "ND") ELSE st
    IN  IF s1.pdf["girdle"] \in {"ND", PyNone}
        THEN SetScore(s1, "girdle_score", 0)
        ELSE IF Contains(PyLower(s1.pdf["shape"]), "heart")
        THEN SetScore(s1, "girdle_score", assign_girdle_value_for_heart(s1.girdle_gia))
        ELSE SetScore(s1, "girdle_score", assign_girdle_value(s1.girdle_gia))

\* FGradeScores with a cut score as the round path has it
FGradeScoresWithCut(st) ==
    LET s1 == SetScore(st, "polish_score",
                  IF st.pdf["polish"] \in {"ND", PyNone} THEN 0
                  ELSE check_polish("None", st.polish_value))
        s2 == SetScore(s1, "symmetry_score",
                  IF st.pdf["symmetry"] \in {"ND", PyNone} THEN 0
                  ELSE check_symmetry("None", st.symmetry_value))
    IN  SetScore(s2, "cut_score", 0)

FGradeScores(st) ==
    LET s1 == SetScore(st, "polish_score",
                  IF st.pdf["polish"] \in {"ND", PyNone} THEN 0
                  ELSE check_polish("None", st.polish_value))
    IN  SetScore(s1, "symmetry_score",
                  IF st.pdf["symmetry"] \in {"ND", PyNone} THEN 0
                  ELSE check_symmetry("None", st.symmetry_value))

\* fluorescence by color grade; the fallback reads the affiliate's "color_grade" key
\* whenever the affiliate is not None
FFluorescence(st) ==
    LET NdFill(s) ==
            LET a == IF s.pdf["fluorescence"] = PyNone
                     THEN SetPdf(s, "fluorescence", "ND") ELSE s
            IN  IF a.pdf["color_grade"] = Missing THEN Raise(a)
                ELSE IF a.pdf["color_grade"] = PyNone THEN SetPdf(a, "color_grade", "ND")
                ELSE a
    IN  IF st.pdf["fluorescence"] = Missing THEN Raise(st)
        ELSE IF st.pdf["fluorescence"] # PyNone /\ st.pdf["color_grade"] = Missing
        THEN Raise(st)
        ELSE IF st.pdf["fluorescence"] # PyNone /\ st.pdf["color_grade"] # PyNone
        THEN SetScore(st, "fluorescence_score",
                      FluorScore(st.pdf["fluorescence"], st.pdf["color_grade"]))
        ELSE IF st.aff.kind = "None" THEN NdFill(SetScore(st, "fluorescence_score", 0))
        ELSE IF st.aff.kind = "empty" THEN Raise(st)
        ELSE IF st.aff.d["fluorescence"] = PyNone
        THEN NdFill(SetScore(st, "fluorescence_score", 0))
        ELSE IF st.aff.d["color_grade"] = Missing THEN Raise(st)
        ELSE IF st.aff.d["color_grade"] = PyNone
        THEN NdFill(SetScore(st, "fluorescence_score", 0))
        ELSE LET s1 == [st EXCEPT !.pdf["fluorescence"] = st.aff.d["fluorescence"],
                                  !.pdf["color_grade"] = st.aff.d["color_grade"]]
             IN  SetScore(s1, "fluorescence_score",
                          FluorScore(s1.pdf["fluorescence"], s1.pdf["color_grade"]))

FSymbol(st) ==
    IF st.pdf["key_to_symbol"] = Missing THEN Raise(st)
    ELSE IF st.pdf["key_to_symbol"] # PyNone
    THEN SetScore(st, "key_to_symbol_score", check_symbol(st.pdf["key_to_symbol"]))
    ELSE SetScore(st, "key_to_symbol_score", 5)

\* the blocks of fetch_data after the classification, the last one outermost
FancyRun(s1) ==
    Step(FSymbol, Step(FFluorescence, Step(FGradeScores,
    Step(FGirdleScore, Step(FShapeBack, Step(FDepth,
    Step(FTable, Step(FRatioScore, Step(FCulet,
    Step(FTexts, Step(FReq, Step(FMeasurement, s1))))))))))))

\* "if 'round' in pdf_dc['shape'].lower()": the merged record goes to fetch_data_round
RoundDispatch(s1) ==
    IF ~s1.exc /\ ~s1.status /\ IsRoundShape(s1)
    THEN fetch_data_round(s1.pdf, s1.aff, PyNone)
    ELSE Outcome(FancyRun(s1), "fancy")

\* fetch_data: the merge, the classification, then one of the two paths
fetch_data(pdf_dc, affiliate_process_data, shape) ==
    RoundDispatch(Step(FShape, FMerge(St0(pdf_dc, affiliate_process_data, shape))))

(***************************************************************************)
(* The records and override records the evaluations are run on             *)
(***************************************************************************)
\* how many fields of a base record are changed
MaxRecordChanges == 1
\* how many fields of an override record carry a value
MaxOverrideChanges == 1

Rec(shape, carat, color, cut, polish, symmetry, fluor, girdle, culet, meas, tbl, dep, ca, pa, ph, kts, other) ==
    [k \in PdfKeys |->
        CASE k = "shape" -> shape [] k = "carat" -> carat [] k = "color_grade" -> color
          [] k = "cut" -> cut [] k = "polish" -> polish [] k = "symmetry" -> symmetry
          [] k = "fluorescence" -> fluor [] k = "girdle" -> girdle [] k = "culet" -> culet
          [] k = "measurement" -> meas [] k = "table_size" -> tbl [] k = "depth" -> dep
          [] k = "crown_angle" -> ca [] k = "pavilion_angle" -> pa
          [] k = "pavilion_height" -> ph [] k = "key_to_symbol" -> kts
          [] OTHER -> other]

\* the round record of the specification's scenario
RoundBase ==
    Rec("Round Brilliant", "0.30", "F", "Excellent", "Excellent", "Excellent", "None",
        "Medium", "None", "4.00-4.05x2.50", "58%", "61.5%", "34.5", "40.8", "43.1", "",
        Missing)

\* a princess record inside the princess windows
FancyBase ==
    Rec("Princess", "1.01", "F", PyNone, "Excellent", "Excellent", "None",
        "Medium", "None", "5.51x5.47x3.44", "68%", "70%", PyNone, PyNone, PyNone, "",
        PyNone)

\* records with nothing but a shape
SparseRound ==
    Rec("Round", PyNone, PyNone, PyNone, PyNone, PyNone, PyNone, PyNone, PyNone, PyNone,
        PyNone, PyNone, PyNone, PyNone, PyNone, PyNone, PyNone)

SparseFancy == [SparseRound EXCEPT !["shape"] = "Heart Brilliant"]

SparseUnmatched == [SparseRound EXCEPT !["shape"] = "Unidentifiable Blob"]

FV(f, v) == [f |-> f, v |-> v]

ShapeLabels ==
    {"Round", "Brilliant Round", "ROUND", "Round Cushion", "Princess", "Square Modified Brilliant",
     "Square Emerald Cut", "Square Emerald cushion", "Cushion Modified Brilliant",
     "cushion radiant", "CC", "Emerald", "CUT EMERALD",
     "Cut-Cornered Rectangular Modified Brilliant",
     "Cut-Cornered Square Modified Brilliant", "Cut Cornered Rectangular",
     "Radiant", "Pear Brilliant", "Heart", "Unidentifiable Blob", "Oval", "knot"}

RecordChanges ==
    {FV("shape", l) : l \in ShapeLabels \cup {PyNone, Missing, ""}}
    \cup {FV("carat", v) : v \in {"2.50", "abc", PyNone}}
    \cup {FV("color_grade", v) : v \in {"J", "Z", PyNone}}
    \cup {FV("cut", v) : v \in {"Good", "Zzz", PyNone, Missing}}
    \cup {FV("polish", v) : v \in {"Good", "Zzz", PyNone}}
    \cup {FV("symmetry", v) : v \in {"Good", "Zzz", PyNone}}
    \cup {FV("fluorescence", v) : v \in {"Strong Blue", "Zzz", PyNone}}
    \cup {FV("girdle", v) : v \in {"Thick", "Zzz", "none", PyNone}}
    \cup {FV("culet", v) : v \in {"Small", "Zzz", PyNone}}
    \cup {FV("measurement", v) : v \in {"4.00x4.05x2.50", "7.00x5.00", "abc", PyNone, Missing}}
    \cup {FV("table_size", v) : v \in {"65%", "abc", "5%", "ND", PyNone}}
    \cup {FV("depth", v) : v \in {"66", "abc", "5", PyNone}}
    \cup {FV("crown_angle", v) : v \in {"33.5", "abc", "5", PyNone}}
    \cup {FV("pavilion_angle", v) : v \in {"41.2", "abc", "5", PyNone}}
    \cup {FV("pavilion_height", v) : v \in {"50%", "abc", "5", PyNone}}
    \cup {FV("key_to_symbol", v) : v \in {"Feather, Cloud", "Bogus", PyNone}}

\* the functions got from the ones in S by changing at most n arguments as ch says
RECURSIVE Variants(_, _, _)
Variants(S, ch, n) ==
    IF n = 0 THEN S
    ELSE Variants(S \cup {[r EXCEPT ![c.f] = c.v] : r \in S, c \in ch}, ch, n - 1)

\* the sentinel spellings of an override record
SentinelSpellings == {"false", "False", "none", "None", "null", "Null", "", "0.0000"}

\* an override record that holds v in every field; named is FALSE for a record that
\* has the affiliate's key names only ("griddle", "color")
Filled(v, named) ==
    [kind |-> "dict",
     d |-> [k \in AffKeys |-> IF k \in {"girdle", "color_grade"} /\ ~named THEN Missing ELSE v]]

NoOverride == [kind |-> "None", d |-> [k \in AffKeys |-> Missing]]

EmptyOverride == [kind |-> "empty", d |-> [k \in AffKeys |-> Missing]]

OverrideChanges ==
    {FV("shape", "Round"), FV("shape", "Princess"), FV("carat", "1.20"),
     FV("table_size", "57%"), FV("griddle", "Thick"), FV("depth", "61%"),
     FV("measurement", "5.10x5.12x3.10"), FV("culet", "Small"), FV("color", "J"),
     FV("polish", "Good"), FV("symmetry", "Good"), FV("fluorescence", "Faint"),
     FV("fluorescence", "None"), FV("cut", "Good"), FV("pavilion_height", "43.0"),
     FV("pavilion_angle", "41.3"), FV("crown_height", "15"), FV("crown_angle", "35.5")}

\* round records whose first measurement token is one number, by carat
MeasuredRounds ==
    {[RoundBase EXCEPT !["measurement"] = m, !["carat"] = c] :
        m \in {"4.00x4.05x2.50", "3.50x3.52x2.10", "8.05x8.10x5.00"},
        c \in {"0.30", "0.30 ct", "2.50", PyNone}}

\* override records that give the carat and nothing else
CaratOverrides ==
    {[kind |-> "dict", d |-> [Filled(PyNone, FALSE).d EXCEPT !["carat"] = c]] :
        c \in {"0.30", "2.50"}}

\* override records: every field holds the same "no value", but for at most n fields
OverridesWith(n) ==
    {[kind |-> "dict", d |-> d] :
        d \in Variants({Filled(v, named).d : v \in SentinelSpellings \cup {PyNone},
                                              named \in BOOLEAN},
                       OverrideChanges, n)}

(***************************************************************************)
(* State: one evaluation of one record                                     *)
(***************************************************************************)
VARIABLES
    record,       \* the record handed to the engine, as it was before the call
    override,     \* the affiliate record handed to the engine
    shape_hint,   \* the shape argument
    pc,           \* "ready" before the call, "done" after it
    fn,           \* the entry point that was called
    out,          \* what the call handed back, with the caller's dict after the call
    symbols,      \* a list of inclusion names
    delimiter,    \* the delimiter that key_to_symbol is written with
    added,        \* an inclusion name to add to the list
    at,           \* how many names of the list come before the added one
    symbol_score, \* check_symbol of the list
    added_score,  \* check_symbol of the list with the added name
    characteristic_data, \* the list loaded from config.json, shared by the evaluations
    job,          \* per worker: its record, its position and its local state
    openai_response, \* the gems of a scoring run: the record and the diamond_id of each
    conn,         \* the connection: the committed rows and the rows its transaction sees
    idx,          \* the gem that the loop of run_scoring is at
    step,         \* the statement of the loop body that comes next
    ids,          \* digi_id and score_id of the gem that is being written
    log,          \* per gem, what the loop logged for it
    list_of_url,     \* create step: the certificate links read from the input file
    jobs,            \* create step: args.jobs
    batch_size,      \* create step: args.batch_size
    bpc,             \* where the create and check steps stand
    finished,        \* create step: the job indices whose thread has returned
    job_info,        \* create step: the manifest entries in completion order
    batchfiles,      \* batch_input_<job>.jsonl: the requests of each job, by job index
    manifest,        \* batch_input_manifest.json
    completed_jobs,  \* check step: the jobs OpenAI reports as completed
    parsed_jobs,     \* check step: the jobs whose results are parsed
    all_results,     \* check step: the parsed records, batch_results_concurrent.json
    db,                 \* Affiliate_app_productinfo: per primary key, link and pending
    last_processed_id,  \* last_processed_id.txt
    last_id,            \* fetch step: the pointer read at the start of the run
    fetched,            \* fetch step: the primary keys of the rows the query returned
    diamond_records,    \* 1.FetchFromDB/diamond_records.json
    cron_pc,            \* cronjob: the step that runs next
    iteration,          \* cronjob: the iteration counter
    cron_log,           \* cronjob: the log lines of the steps run
    insert_to_db,       \* 3.ScoringAndDBOps/InsertToDb.json: the ids of its records
    failed_diamonds,    \* 4.RetryFailures/failed_diamonds.json
    final_failure,      \* 4.RetryFailures/final_failure.json
    missing_ids,        \* retry step: what run_integrity_and_recovery returned
    rpc                 \* where the retry step stands

engine == <<record, override, shape_hint, out>>

listing == <<symbols, delimiter, added, at, symbol_score, added_score>>

sharing == <<characteristic_data, job>>

persistence == <<openai_response, conn, idx, step, ids, log>>

batching == <<list_of_url, jobs, batch_size, bpc, finished, job_info, batchfiles,
              manifest, completed_jobs, parsed_jobs, all_results>>

cronjob == <<db, last_processed_id, last_id, fetched, diamond_records, cron_pc,
             iteration, cron_log>>

retrying == <<insert_to_db, failed_diamonds, final_failure, missing_ids, rpc>>

pipeline == <<batching, cronjob, retrying>>

scoring == <<engine, listing, sharing, persistence, pc, fn>>

vars == <<record, override, shape_hint, pc, fn, out,
          symbols, delimiter, added, at, symbol_score, added_score,
          characteristic_data, job, openai_response, conn, idx, step, ids, log,
          pipeline>>

\* no batch files: nothing to split, nothing created
NoBatch ==
    /\ list_of_url = <<>>
    /\ jobs = 1
    /\ batch_size = 5
    /\ bpc = "idle"
    /\ finished = {}
    /\ job_info = <<>>
    /\ batchfiles = <<>>
    /\ manifest = [total_urls |-> 0, total_jobs |-> 0, batch_size |-> 5, jobs |-> <<>>]
    /\ completed_jobs = {}
    /\ parsed_jobs = {}
    /\ all_results = <<>>

\* a file that does not exist
NoFile == [exists |-> FALSE, data |-> <<>>]

\* no cronjob: an empty table, no pointer file, no records file
NoCron ==
    /\ db = <<>>
    /\ last_processed_id = 0
    /\ last_id = 0
    /\ fetched = <<>>
    /\ diamond_records = NoFile
    /\ cron_pc = "idle"
    /\ iteration = 0
    /\ cron_log = <<>>

\* a file of ids that does not exist
NoIds == [exists |-> FALSE, data |-> {}]

\* no retry step
NoRetry ==
    /\ insert_to_db = NoIds
    /\ failed_diamonds = NoFile
    /\ final_failure = NoIds
    /\ missing_ids = {}
    /\ rpc = "idle"

NoPipeline == NoBatch /\ NoCron /\ NoRetry

\* the workers that evaluate at the same time
Workers == {"w1", "w2"}

\* json.load of config.json, as far as check_culet reads it
CharacteristicData == << [characteristic_name |-> "culet", characteristic_data |-> Culet] >>

\* nothing handed back yet
NoOut == [Outcome(Raise(St0(RoundBase, NoOverride, PyNone)), "none") EXCEPT !.kind = "none"]

\* a worker that was handed a record and has not started
NewJob(pdf_dc, affiliate_process_data) ==
    [record |-> pdf_dc, override |-> affiliate_process_data, pc |-> "ready",
     st |-> St0(pdf_dc, affiliate_process_data, PyNone), out |-> NoOut,
     overlapped |-> FALSE]

NoJobs == [w \in Workers |-> NewJob(RoundBase, NoOverride)]

\* no scoring run: no gems, no connection
NoRun ==
    /\ openai_response = <<>>
    /\ conn = [connected |-> FALSE, committed |-> <<>>, pending |-> <<>>]
    /\ idx = 1
    /\ step = "score"
    /\ ids = <<0, 0>>
    /\ log = <<>>

Init ==
    /\ NoPipeline
    /\ characteristic_data = CharacteristicData
    /\ job = NoJobs
    /\ NoRun
    /\ \/ /\ record \in Variants({RoundBase, FancyBase}, RecordChanges, MaxRecordChanges)
                        \cup {SparseRound, SparseFancy, SparseUnmatched}
          /\ override \in {NoOverride, Filled(PyNone, FALSE), Filled("", TRUE)}
          /\ shape_hint = PyNone
       \/ /\ record \in {RoundBase, FancyBase, SparseRound, SparseFancy}
          /\ override \in OverridesWith(MaxOverrideChanges) \cup {EmptyOverride}
          /\ shape_hint = PyNone
       \/ /\ record \in {RoundBase, FancyBase, SparseRound, SparseFancy}
          /\ override = NoOverride
          /\ shape_hint \in {"round", "princess"}
       \/ /\ record \in MeasuredRounds
          /\ override \in CaratOverrides \cup {NoOverride}
          /\ shape_hint = PyNone
    /\ pc = "ready"
    /\ fn = ""
    /\ out = NoOut
    /\ symbols = <<>>
    /\ delimiter = ", "
    /\ added = ""
    /\ at = 0
    /\ symbol_score = NoValue
    /\ added_score = NoValue

\* final_data, result_dc, updated_pdf_dic = fetch_data(config_data, diamond, ...)
CallFetchData ==
    /\ UNCHANGED pipeline
    /\ pc = "ready"
    /\ out' = fetch_data(record, override, shape_hint)
    /\ fn' = "fetch_data"
    /\ pc' = "done"
    /\ UNCHANGED <<record, override, shape_hint>>
    /\ UNCHANGED listing
    /\ UNCHANGED sharing
    /\ UNCHANGED persistence

\* final_data, result_dc, updated_pdf_dic = fetch_data_round(config_data, diamond, ...)
CallFetchDataRound ==
    /\ UNCHANGED pipeline
    /\ pc = "ready"
    /\ out' = fetch_data_round(record, override, shape_hint)
    /\ fn' = "fetch_data_round"
    /\ pc' = "done"
    /\ UNCHANGED <<record, override, shape_hint>>
    /\ UNCHANGED listing
    /\ UNCHANGED sharing
    /\ UNCHANGED persistence

Next == CallFetchData \/ CallFetchDataRound

Spec == Init /\ [][Next]_vars

(***************************************************************************)
(* State: check_symbol on a list of inclusion names and on the list with   *)
(* one more name                                                           *)
(***************************************************************************)
\* how many names a list holds before one is added
MaxTokens == 2

\* inclusion names as a report spells them; "Bogus" is in no table
TokenPool ==
    {"Pinpoint", "Cloud", "Feather", "Indented Natural", "Twinning Wisp", "Cavity", "Bogus"}

\* the names of TokenPool that KEYS TO SYMBOLS holds
Recognized(t) == \E i \in 1..Len(KeysToSymbols) : KeysToSymbols[i].data_type = PyUpper(t)

\* the lists of at most n names
RECURSIVE TokenLists(_)
TokenLists(n) ==
    IF n = 0 THEN {<<>>}
    ELSE TokenLists(n - 1) \cup {Append(l, t) : l \in TokenLists(n - 1), t \in TokenPool}

\* the list l with t after its first n names
InsertAt(l, n, t) == SubSeq(l, 1, n) \o <<t>> \o SubSeq(l, n + 1, Len(l))

InitSymbol ==
    /\ NoPipeline
    /\ characteristic_data = CharacteristicData
    /\ job = NoJobs
    /\ NoRun
    /\ symbols \in TokenLists(MaxTokens)
    /\ delimiter \in {",", ", ", " "}
    /\ added \in {t \in TokenPool : Recognized(t)}
    /\ at \in 0..Len(symbols)
    /\ symbol_score = NoValue
    /\ added_score = NoValue
    /\ pc = "ready"
    /\ fn = ""
    /\ record = RoundBase
    /\ override = NoOverride
    /\ shape_hint = PyNone
    /\ out = NoOut

\* check_symbol(pdf_dc['key_to_symbol'], characteristic_data) on the list
ScoreList ==
    /\ UNCHANGED pipeline
    /\ pc = "ready"
    /\ symbol_score' = check_symbol(Join(symbols, delimiter))
    /\ pc' = "listed"
    /\ fn' = "check_symbol"
    /\ UNCHANGED <<symbols, delimiter, added, at, added_score>>
    /\ UNCHANGED engine
    /\ UNCHANGED sharing
    /\ UNCHANGED persistence

\* check_symbol on the list with the added name
ScoreExtended ==
    /\ UNCHANGED pipeline
    /\ pc = "listed"
    /\ added_score' = check_symbol(Join(InsertAt(symbols, at, added), delimiter))
    /\ pc' = "done"
    /\ UNCHANGED <<symbols, delimiter, added, at, symbol_score, fn>>
    /\ UNCHANGED engine
    /\ UNCHANGED sharing
    /\ UNCHANGED persistence

NextSymbol == ScoreList \/ ScoreExtended

SpecSymbol == InitSymbol /\ [][NextSymbol]_vars

(***************************************************************************)
(* State: two workers evaluate distinct records at the same time; what     *)
(* they share is the list loaded from config.json                          *)
(***************************************************************************)
\* the "culet" entry of the list: the first loop of check_culet
CuletInfo(characteristic_json) ==
    characteristic_json[FirstOf({i \in 1..Len(characteristic_json) :
        characteristic_json[i].characteristic_name = "culet"})].characteristic_data

\* ListAfterCulet of a check_culet that takes the sub-table it has gone over off the
\* list
ListAfterCuletConsumed(characteristic_json, st) ==
    [i \in 1..Len(characteristic_json) |->
        [characteristic_json[i] EXCEPT !.characteristic_data = Tail(@)]]

\* the list after the culet block of an evaluation: the block and check_culet read it
\* and assign to none of its entries
ListAfterCulet(characteristic_json, st) == characteristic_json

\* the records that the workers are handed
WorkerRecords ==
    Variants({RoundBase},
             {FV("culet", "Large"), FV("culet", "Zzz"), FV("culet", PyNone),
              FV("polish", "Good"), FV("shape", "Unidentifiable Blob")}, 1)

WorkerOverrides ==
    {NoOverride, [kind |-> "dict", d |-> [Filled(PyNone, FALSE).d EXCEPT !["culet"] = "Very Small"]]}

InitWorkers ==
    /\ NoPipeline
    /\ characteristic_data = CharacteristicData
    /\ job \in {j \in [Workers -> {NewJob(r, a) : r \in WorkerRecords, a \in WorkerOverrides}] :
                  \A v, w \in Workers : v # w => j[v].record # j[w].record}
    /\ NoRun
    /\ pc = "ready"
    /\ fn = ""
    /\ record = RoundBase
    /\ override = NoOverride
    /\ shape_hint = PyNone
    /\ out = NoOut
    /\ symbols = <<>>
    /\ delimiter = ", "
    /\ added = ""
    /\ at = 0
    /\ symbol_score = NoValue
    /\ added_score = NoValue

\* another worker is between its first block and its last
OthersMidway(w) == \E v \in Workers \ {w} : job[v].pc \in {"culet", "rest"}

\* fetch_data_round of worker w up to the culet block
WorkerBegin(w) ==
    /\ UNCHANGED pipeline
    /\ job[w].pc = "ready"
    /\ job' = [job EXCEPT ![w].st = RoundBeforeCulet(job[w].st), ![w].pc = "culet"]
    /\ UNCHANGED characteristic_data
    /\ UNCHANGED <<pc, fn>>
    /\ UNCHANGED engine
    /\ UNCHANGED listing
    /\ UNCHANGED persistence

\* the culet block of worker w: check_culet goes over the shared list
WorkerCulet(w) ==
    /\ UNCHANGED pipeline
    /\ job[w].pc = "culet"
    /\ job' = [job EXCEPT
                  ![w].st = IF job[w].st.exc \/ job[w].st.status THEN job[w].st
                            ELSE RCuletFrom(CuletInfo(characteristic_data), job[w].st),
                  ![w].pc = "rest",
                  ![w].overlapped = OthersMidway(w)]
    /\ characteristic_data' = ListAfterCulet(characteristic_data, job[w].st)
    /\ UNCHANGED <<pc, fn>>
    /\ UNCHANGED engine
    /\ UNCHANGED listing
    /\ UNCHANGED persistence

\* the blocks after the culet block, and the return
WorkerEnd(w) ==
    /\ UNCHANGED pipeline
    /\ job[w].pc = "rest"
    /\ job' = [job EXCEPT ![w].out = Outcome(RoundAfterCulet(job[w].st), "round"),
                          ![w].pc = "done"]
    /\ UNCHANGED characteristic_data
    /\ UNCHANGED <<pc, fn>>
    /\ UNCHANGED engine
    /\ UNCHANGED listing
    /\ UNCHANGED persistence

NextWorkers == \E w \in Workers : WorkerBegin(w) \/ WorkerCulet(w) \/ WorkerEnd(w)

SpecWorkers == InitWorkers /\ [][NextWorkers]_vars

(***************************************************************************)
(* State: the loop of run_scoring over the gems of a run, with the         *)
(* database writes of each gem on one connection                           *)
(***************************************************************************)
MaxGems == 2

\* the rows of a gem that no run has written: the inventory row is not processed
FreshRows ==
    [digitization |-> "none", score |-> "none", timestamp |-> "none",
     characteristics |-> "none", status |-> FALSE, digitization_id |-> 0,
     score_info_id |-> 0]

\* the rows of gem g as an earlier run left them
EarlierRows(g) ==
    [digitization |-> "earlier", score |-> "earlier", timestamp |-> "earlier",
     characteristics |-> "earlier", status |-> TRUE, digitization_id |-> g,
     score_info_id |-> g]

\* a record that fetch_data_round raises on
RaisingRecord == [RoundBase EXCEPT !["table_size"] = "abc"]

InitRun ==
    /\ NoPipeline
    /\ openai_response \in [1..MaxGems -> [diamond : {RoundBase, RaisingRecord},
                                            diamond_id : BOOLEAN]]
    /\ \E connected \in BOOLEAN, rows \in [1..MaxGems -> BOOLEAN] :
           conn = [connected |-> connected,
                   committed |-> [g \in 1..MaxGems |->
                                     IF rows[g] THEN EarlierRows(g) ELSE FreshRows],
                   pending |-> [g \in 1..MaxGems |->
                                   IF rows[g] THEN EarlierRows(g) ELSE FreshRows]]
    /\ idx = 1
    /\ step = "score"
    /\ ids = <<0, 0>>
    /\ log = [g \in 1..MaxGems |-> "none"]
    /\ characteristic_data = CharacteristicData
    /\ job = NoJobs
    /\ pc = "ready"
    /\ fn = ""
    /\ record = RoundBase
    /\ override = NoOverride
    /\ shape_hint = PyNone
    /\ out = NoOut
    /\ symbols = <<>>
    /\ delimiter = ", "
    /\ added = ""
    /\ at = 0
    /\ symbol_score = NoValue
    /\ added_score = NoValue

\* connection.rollback() that leaves the writes of the transaction where they are
RollbackKept(connection) == connection

\* connection.rollback(): the transaction's writes are dropped
Rollback(connection) == [connection EXCEPT !.pending = connection.committed]

\* conn.commit(): the transaction's writes become the committed rows
Commit(connection) == [connection EXCEPT !.committed = connection.pending]

\* a statement of the transaction on the rows of gem g
Execute(connection, g, rows) == [connection EXCEPT !.pending[g] = rows]

\* section A.2 of the loop body: the raw shape, "ND" when there is none, and the
\* mapping of the legacy names
NormalizeShape(shape) ==
    IF Contains(PyUpper(shape), "SQUARE EMERALD") THEN "Square Emerald"
    ELSE IF Contains(PyUpper(shape), "OCTAGONAL MODIFIED") THEN "Radiant"
    ELSE IF Contains(PyUpper(shape), "CUT CORNERED SQUARE")
            \/ Contains(PyUpper(shape), "CUT-CORNERED SQUARE") THEN "Radiant"
    ELSE IF Contains(PyUpper(shape), "CUT CORNERED RECTANGULAR") THEN "Radiant"
    ELSE shape

\* the record of a gem after the pre-processing of its shape
Preprocessed(diamond) ==
    [diamond EXCEPT !["shape"] =
        NormalizeShape(IF IsStr(diamond["shape"]) /\ diamond["shape"] # ""
                       THEN Strip(diamond["shape"]) ELSE "ND")]

\* the engine on a pre-processed record: the round path for a shape with "round"
Dispatch(diamond) ==
    IF Contains(PyLower(diamond["shape"]), "round")
    THEN fetch_data_round(diamond, NoOverride, PyNone)
    ELSE fetch_data(diamond, NoOverride, PyNone)

\* the scoring call of the loop on a gem's record
ScoreDiamond(diamond) == Dispatch(Preprocessed(diamond))

\* the loop goes on to the next gem with what it logged for this one
NextGem(line) ==
    /\ log' = [log EXCEPT ![idx] = line]
    /\ idx' = idx + 1
    /\ step' = "score"
    /\ ids' = <<0, 0>>

\* a statement raises: its function rolls back and raises again, the handler of the
\* loop logs the error and rolls back, and the loop goes on
DbError ==
    /\ conn' = Rollback(Rollback(conn))
    /\ NextGem("db_error")

\* a statement has been executed and the next one is s
Executed(rows, s, i) ==
    /\ conn' = Execute(conn, idx, rows)
    /\ step' = s
    /\ ids' = i
    /\ UNCHANGED <<idx, log>>

Others == /\ UNCHANGED <<pc, fn, openai_response>>
          /\ UNCHANGED pipeline
          /\ UNCHANGED engine
          /\ UNCHANGED listing
          /\ UNCHANGED sharing

\* sections A to D of the loop body: the scoring call and the post-processing; an
\* exception goes to the handler of the loop, a gem without connection or diamond_id
\* is not written
ScoreGem ==
    /\ idx <= MaxGems
    /\ step = "score"
    /\ IF ScoreDiamond(openai_response[idx].diamond).kind = "raise"
       THEN NextGem("error") /\ UNCHANGED conn
       ELSE IF conn.connected /\ openai_response[idx].diamond_id
       THEN /\ step' = "insert_digitisation_data"
            /\ UNCHANGED <<conn, idx, ids, log>>
       ELSE NextGem("not written") /\ UNCHANGED conn
    /\ Others

\* the upsert of the digitization row, RETURNING id
insert_digitisation_data ==
    /\ step = "insert_digitisation_data"
    /\ \/ Executed([conn.pending[idx] EXCEPT !.digitization = "run"],
                    "insert_digisation_score_data", <<idx, 0>>)
       \/ DbError
    /\ Others

\* the upsert of the score row, RETURNING id
insert_digisation_score_data ==
    /\ step = "insert_digisation_score_data"
    /\ \/ Executed([conn.pending[idx] EXCEPT !.score = "run"], "ai_time_update",
                    <<ids[1], idx>>)
       \/ DbError
    /\ Others

\* the timestamp row, inserted when the gem has none
ai_time_update ==
    /\ step = "ai_time_update"
    /\ \/ Executed([conn.pending[idx] EXCEPT
                        !.timestamp = IF @ = "none" THEN "run" ELSE @],
                    "update_ProductCharacteristics", ids)
       \/ DbError
    /\ Others

update_ProductCharacteristics ==
    /\ step = "update_ProductCharacteristics"
    /\ \/ Executed([conn.pending[idx] EXCEPT !.characteristics = "run"],
                    "update_product_info", ids)
       \/ DbError
    /\ Others

\* the inventory row: status and the two foreign keys
update_product_info ==
    /\ step = "update_product_info"
    /\ \/ Executed([conn.pending[idx] EXCEPT !.status = TRUE,
                                              !.digitization_id = ids[1],
                                              !.score_info_id = ids[2]],
                    "commit", ids)
       \/ DbError
    /\ Others

\* conn.commit() of the gem; when it raises, the handler of the loop rolls back
CommitGem ==
    /\ step = "commit"
    /\ \/ conn' = Commit(conn) /\ NextGem("written")
       \/ conn' = Rollback(conn) /\ NextGem("db_error")
    /\ Others

\* conn.close() after the loop
CloseConnection ==
    /\ idx = MaxGems + 1
    /\ step = "score"
    /\ conn.connected
    /\ conn' = [Rollback(conn) EXCEPT !.connected = FALSE]
    /\ step' = "closed"
    /\ UNCHANGED <<idx, ids, log>>
    /\ Others

NextRun ==
    \/ ScoreGem
    \/ insert_digitisation_data
    \/ insert_digisation_score_data
    \/ ai_time_update
    \/ update_ProductCharacteristics
    \/ update_product_info
    \/ CommitGem
    \/ CloseConnection

SpecRun == InitRun /\ [][NextRun]_vars

(***************************************************************************)
(* Properties of the evaluations                                           *)
(***************************************************************************)
\* final_dict of a round evaluation: the 13 keys summed at the end of fetch_data_round
RoundTally ==
    {"culet_score", "measurement_score", "pavilion_height_score", "pavilion_angle_score",
     "crown_angle_score", "table_size_score", "depth_score", "girdle_score",
     "polish_score", "symmetry_score", "cut_score", "fluorescence_score",
     "key_to_symbol_score"}

\* the field of the record behind each attribute of the round tally
FieldOf(sk) ==
    CASE sk = "culet_score" -> "culet" [] sk = "measurement_score" -> "measurement"
      [] sk = "pavilion_height_score" -> "pavilion_height"
      [] sk = "pavilion_angle_score" -> "pavilion_angle"
      [] sk = "crown_angle_score" -> "crown_angle" [] sk = "table_size_score" -> "table_size"
      [] sk = "depth_score" -> "depth" [] sk = "girdle_score" -> "girdle"
      [] sk = "polish_score" -> "polish" [] sk = "symmetry_score" -> "symmetry"
      [] sk = "cut_score" -> "cut" [] sk = "fluorescence_score" -> "fluorescence"
      [] sk = "key_to_symbol_score" -> "key_to_symbol"
      [] sk = "length_width_ratio_score" -> "measurement"

RoundScored == pc = "done" /\ out.path = "round" /\ out.kind = "score"

FancyScored == pc = "done" /\ out.path = "fancy" /\ out.kind = "score"

\* C1, as the specification states it: every round evaluation that returns a score
\* record tallies exactly the 13 round attributes, and every attribute whose field is
\* null in the record, with no override record given, scores 0
C1_AbsentScoresZero ==
    RoundScored =>
        /\ out.tally = RoundTally
        /\ \A sk \in RoundTally :
              (record[FieldOf(sk)] = PyNone /\ override.kind # "dict") => out.score[sk] = 0

\* C1, amended: every round evaluation that returns a score record tallies exactly
\* the 13 round attributes, whatever the fields and the override record hold; an
\* attribute whose field is null, with no override record or one that holds nothing,
\* scores 0, except inclusion/symbol, which scores 5 when key_to_symbol is null
C1_RoundTallyIs13 ==
    RoundScored =>
        /\ out.tally = RoundTally
        /\ Cardinality(out.tally) = 13
        /\ \A sk \in RoundTally :
              (/\ record[FieldOf(sk)] = PyNone
               /\ \/ override.kind # "dict"
                  \/ \A k \in AffKeys : override.d[k] \in {PyNone, Missing})
                  => out.score[sk] = IF sk = "key_to_symbol_score" THEN 5 ELSE 0

\* C1 witness: fetch_data_round scored, under an override record, a round record
\* that has no key_to_symbol; the attribute is tallied with 5
C1_Witness ==
    /\ RoundScored
    /\ fn = "fetch_data_round"
    /\ override.kind = "dict"
    /\ record["key_to_symbol"] = PyNone
    /\ out.score["key_to_symbol_score"] = 5
    /\ out.tally = RoundTally

\* C2: a round record with every attribute inside the round windows and every lookup
\* at 5, its measurement written "min-max x depth" or "length x width x depth", gets
\* digisation_score "100.0%" from fetch_data_round
C2_PerfectRoundIs100 ==
    (/\ pc = "done"
     /\ fn = "fetch_data_round"
     /\ override.kind # "dict"
     /\ record \in {RoundBase, [RoundBase EXCEPT !["measurement"] = "4.00x4.05x2.50"]})
        => out.kind = "score" /\ out.digisation_score = "100.0%"

\* the labels that match no classification rule and name no family of data
UnmatchedLabels == {"Unidentifiable Blob", "Oval"}

\* C3: a record whose shape label matches no rule and names no family gets the
\* Status result from fetch_data and from fetch_data_round, whatever its other fields
C3_UnmatchedShapeIsStatus ==
    (/\ pc = "done"
     /\ record["shape"] \in UnmatchedLabels
     /\ override.kind # "dict"
     /\ shape_hint = PyNone)
        => out.kind = "status"

\* the numeric fields that each path scores
NumericScores(path) ==
    IF path = "round"
    THEN {"table_size_score", "depth_score", "pavilion_height_score",
          "pavilion_angle_score", "crown_angle_score", "measurement_score"}
    ELSE {"table_size_score", "depth_score", "length_width_ratio_score"}

\* C4: in a record whose shape classifies, a numeric field whose text has no digit or
\* a single digit scores 0 and the evaluation returns a score record
C4_UnparseableScoresZero ==
    (/\ pc = "done"
     /\ record["shape"] \in {"Round Brilliant", "Princess"}
     /\ override.kind # "dict"
     /\ shape_hint = PyNone
     /\ \A k \in PdfKeys : record[k] # Missing \/ RoundBase[k] = Missing)
        => \A sk \in NumericScores(out.path) :
               record[FieldOf(sk)] \in {"abc", "5"}
                   => out.kind = "score" /\ out.score[sk] = 0

\* is v a value that is there: not null, not empty
Present(v) == v \notin {Missing, PyNone, ""}

\* the merge rules of the path that ran
RulesOf(path) == IF path = "round" THEN MergeRulesRound ELSE MergeRulesFancy

AllSentinel(aff) ==
    aff.kind = "dict" /\ \A k \in AffKeys : aff.d[k] \in SentinelSpellings

\* C6: an override record of sentinel values only gives the cleaned record and the
\* score record that no override record gives
C6_SentinelOverrideIsNoOverride ==
    (pc = "done" /\ AllSentinel(override)) =>
        LET alone == IF fn = "fetch_data" THEN fetch_data(record, NoOverride, shape_hint)
                     ELSE fetch_data_round(record, NoOverride, shape_hint)
        IN  /\ out.kind = alone.kind
            /\ out.pdf_dc = alone.pdf_dc
            /\ out.tally = alone.tally
            /\ out.score = alone.score
            /\ out.digisation_score = alone.digisation_score

\* the family of the first rule, in program order, that the label matches; "" when
\* it matches none
FirstMatch(shape) ==
    IF Rule1(shape) # "" THEN Rule1(shape)
    ELSE IF Rule2(shape) # "" THEN Rule2(shape)
    ELSE Rule3(shape, SplitWs(shape)[1])

\* C8: the family that fetch_data classifies a label into is that of the first rule
\* the label matches
C8_FirstMatchWins ==
    (/\ pc = "done"
     /\ fn = "fetch_data"
     /\ out.path = "fancy"
     /\ override.kind # "dict"
     /\ record["shape"] \in ShapeLabels
     /\ FirstMatch(record["shape"]) # "")
        => out.family = FirstMatch(record["shape"])

\* was a length/width ratio computed from the measurement of the working record
RatioComputed == IsStr(out.merged["measurement"]) /\ ParseRatio(out.merged["measurement"]).ok

\* did the lookup of the family's requirement give a length_width_ratio window
NoWindow ==
    /\ shape_hint = PyNone
    /\ ~Contains(out.merged["shape"], "not")
    /\ \A i \in 1..Len(data) :
           data[i].Diamond_type = PyLower(out.family) => data[i].length_width_ratio = Missing

\* C9, as the specification states it: length_width_ratio_score is tallied only when
\* the ratio was computed from the measurement
C9_TalliedOnlyWhenComputed ==
    FancyScored => ("length_width_ratio_score" \in out.tally => RatioComputed)

\* C9, amended: length_width_ratio_score is left out of the tally only when no
\* length/width window was found for the family; with a window and no computed ratio
\* it is tallied with score 0
C9_TalliedUnlessNoWindow ==
    FancyScored =>
        /\ "length_width_ratio_score" \notin out.tally <=> NoWindow
        /\ ("length_width_ratio_score" \in out.tally /\ ~RatioComputed)
               => out.score["length_width_ratio_score"] = 0

\* C9 witness: a fancy record without a usable measurement was scored and its
\* length/width ratio counts with 0
C9_Witness ==
    /\ FancyScored
    /\ ~RatioComputed
    /\ "length_width_ratio_score" \in out.tally
    /\ out.score["length_width_ratio_score"] = 0

\* C10, as the specification states it: apart from the length/width ratio a fancy
\* evaluation tallies the round attributes without crown angle and measurement
C10_RoundSetMinusTwo ==
    FancyScored =>
        out.tally \ {"length_width_ratio_score"}
            = RoundTally \ {"crown_angle_score", "measurement_score"}

\* C10, amended: apart from the length/width ratio a fancy evaluation tallies culet,
\* table size, depth, girdle, polish, symmetry, fluorescence and inclusion/symbol;
\* cut, pavilion height and pavilion angle are not scored
C10_FancyTally ==
    FancyScored =>
        out.tally \ {"length_width_ratio_score"}
            = {"culet_score", "table_size_score", "depth_score", "girdle_score",
               "polish_score", "symmetry_score", "fluorescence_score",
               "key_to_symbol_score"}

\* C10 witness: a fancy record was scored with its length/width ratio, 9 attributes
C10_Witness ==
    /\ FancyScored
    /\ "length_width_ratio_score" \in out.tally
    /\ Cardinality(out.tally) = 9
    /\ record["cut"] # PyNone

\* the least configured score of the names of l that KEYS TO SYMBOLS holds, 5 when
\* it holds none of them
LeastScore(l) ==
    LET known == {i \in 1..Len(l) : Recognized(l[i])}
        ScoreOf(t) == KeysToSymbols[CHOOSE i \in 1..Len(KeysToSymbols) :
                                        KeysToSymbols[i].data_type = PyUpper(t)].value
    IN  IF known = {} THEN 5
        ELSE CHOOSE m \in {ScoreOf(l[i]) : i \in known} :
                 \A i \in known : m <= ScoreOf(l[i])

PercentOf(text) == PyFloatOf(SplitOn(text, "%")[1]).v

\* C11: in every score record each per-attribute score is an integer in 0..5 or is
\* tagged 'Not Applicable', and the number of digisation_score is between 0 and 100
C11_ScoresInRange ==
    (pc = "done" /\ out.kind = "score") =>
        /\ \A k \in ScoreKeys :
               \/ k \in out.tally /\ k \notin out.na /\ out.score[k] \in 0..5
               \/ k \in out.na /\ k \notin out.tally
        /\ PyFloatOf(SplitOn(out.digisation_score, "%")[1]).ok
        /\ PercentOf(out.digisation_score) >= 0
        /\ PercentOf(out.digisation_score) <= 100 * Scale

\* C11 witness: a score record with an attribute at 0, one at 5, a tag and a
\* composite strictly between 0 and 100
C11_Witness ==
    /\ pc = "done" /\ out.kind = "score"
    /\ \E k \in out.tally : out.score[k] = 0
    /\ \E k \in out.tally : out.score[k] = 5
    /\ \E k \in out.tally : out.score[k] \in 1..4
    /\ out.na # {}
    /\ PercentOf(out.digisation_score) > 0
    /\ PercentOf(out.digisation_score) < 100 * Scale


(***************************************************************************)
(* C12: what a call does to the records of its caller                      *)
(***************************************************************************)
\* C12: an evaluation leaves the raw record of its caller as it was: after the call
\* the caller's dict holds, field by field, what it held before the call
C12_CallerRecordUnchanged ==
    pc = "done" => \A k \in PdfKeys : out.pdf_dc[k] = record[k]


CallOn(pdf_dc) ==
    IF fn = "fetch_data" THEN fetch_data(pdf_dc, override, shape_hint)
    ELSE fetch_data_round(pdf_dc, override, shape_hint)

\* values without a row: the field, its score, the value, a value that has a row, and
\* the paths on which the field is looked up
NoRowCases ==
    {[f |-> "girdle", sk |-> "girdle_score", v |-> "Zzz", m |-> "Medium", on |-> {"round", "fancy"}],
     [f |-> "polish", sk |-> "polish_score", v |-> "Zzz", m |-> "Excellent", on |-> {"round", "fancy"}],
     [f |-> "symmetry", sk |-> "symmetry_score", v |-> "Zzz", m |-> "Excellent", on |-> {"round", "fancy"}],
     [f |-> "cut", sk |-> "cut_score", v |-> "Zzz", m |-> "Excellent", on |-> {"round"}],
     [f |-> "culet", sk |-> "culet_score", v |-> "Zzz", m |-> "None", on |-> {"round", "fancy"}],
     [f |-> "culet", sk |-> "culet_score", v |-> "Small", m |-> "None", on |-> {"round"}],
     [f |-> "fluorescence", sk |-> "fluorescence_score", v |-> "Zzz", m |-> "None", on |-> {"round", "fancy"}],
     [f |-> "color_grade", sk |-> "fluorescence_score", v |-> "Z", m |-> "F", on |-> {"round", "fancy"}]}

\* outcome o has 0 for score sk and is in every other score the outcome ref
ZeroForOnly(o, ref, sk) ==
    /\ o.kind = "score"
    /\ sk \in o.tally
    /\ o.score[sk] = 0
    /\ o.tally = ref.tally
    /\ o.na = ref.na
    /\ \A k \in o.tally \ {sk} : o.score[k] = ref.score[k]
    /\ PercentOf(o.digisation_score) < 100 * Scale

\* the state is the evaluation of a record that holds the value of case c, on a path
\* that looks the field up, and the record with the other value of c gets scores
Applies(c) ==
    /\ pc = "done"
    /\ record[c.f] = c.v
    /\ out.path \in c.on
    /\ CallOn([record EXCEPT ![c.f] = c.m]).kind = "score"
    /\ CallOn([record EXCEPT ![c.f] = c.m]).path = out.path

\* C14: a value that the look-up has no row for gives score 0 for that attribute and
\* for no other: the call does not raise, every other score is the one that the
\* record gets with a value that has a row, and the composite is below 100%
C14_NoRowScoresZero ==
    \A c \in NoRowCases :
        Applies(c) => ZeroForOnly(out, CallOn([record EXCEPT ![c.f] = c.m]), c.sk)

\* C14 witness: a record that is perfect but for one value without a row has been
\* evaluated: with the other value its composite is 100%
C14_Witness ==
    \E c \in NoRowCases :
        /\ Applies(c)
        /\ out.score[c.sk] = 0
        /\ CallOn([record EXCEPT ![c.f] = c.m]).digisation_score = "100.0%"


(***************************************************************************)
(* C15: the composite and the "Not Applicable" tags                        *)
(***************************************************************************)
\* the sum of the scores of the keys in S
RECURSIVE SumOf(_, _)
SumOf(score, S) ==
    IF S = {} THEN 0
    ELSE score[CHOOSE k \in S : TRUE] + SumOf(score, S \ {CHOOSE k \in S : TRUE})

\* C15: the composite is 100 * sum / (5 * count) over the numeric scores, rounded to
\* two decimals; a score that holds the "Not Applicable" tag is none of them: the tags
\* are written after the composite is computed
C15_CompositeOverNumericScores ==
    (pc = "done" /\ out.kind = "score") =>
        /\ out.na \cap out.tally = {}
        /\ out.tally # {}
        /\ PercentOf(out.digisation_score)
               = RoundDiv(SumOf(out.score, out.tally) * 100 * Scale,
                          5 * Cardinality(out.tally))

\* C15 witness: a score record with tags whose numeric scores are all 5: its composite
\* is 100%, which it could not be had a tag been counted
C15_Witness ==
    /\ pc = "done"
    /\ out.kind = "score"
    /\ out.na # {}
    /\ \A k \in out.tally : out.score[k] = 5
    /\ out.digisation_score = "100.0%"


(***************************************************************************)
(* C16: the database writes of one gem                                     *)
(***************************************************************************)
\* the rows of gem g after its five writes, from the rows it had
WrittenRows(g, rows) ==
    [digitization |-> "run", score |-> "run",
     timestamp |-> IF rows.timestamp = "none" THEN "run" ELSE rows.timestamp,
     characteristics |-> "run", status |-> TRUE, digitization_id |-> g,
     score_info_id |-> g]

\* C16: the writes of one gem are committed together or not at all.  The committed
\* rows of a gem that the loop logged as written are all five writes, with the
\* inventory row processed and both foreign keys; the committed rows of every other
\* gem, one that failed or one that is being written, are rows that no statement of
\* this run has touched, so the inventory row of a failed gem is not marked by this
\* run and the rows of the gems before it are as they were committed; and the loop
\* takes up each next gem with no write pending
C16_GemWritesAtomic ==
    step # "closed" =>
        /\ \A g \in 1..MaxGems :
               IF log[g] = "written"
               THEN conn.committed[g] \in {WrittenRows(g, FreshRows),
                                           WrittenRows(g, EarlierRows(g))}
               ELSE conn.committed[g] \in {FreshRows, EarlierRows(g)}
        /\ step = "score" => conn.pending = conn.committed
        /\ \A g \in 1..MaxGems : log[g] # "none" <=> g < idx

\* C16 witness: the first gem was written, the statements of the second failed after
\* the first of them, and the loop is past it
C16_Witness ==
    /\ idx = MaxGems + 1
    /\ log[1] = "written"
    /\ conn.committed[1].status
    /\ log[MaxGems] = "db_error"
    /\ conn.committed[MaxGems] = FreshRows


(***************************************************************************)
(* C17: the positions of type_configuration that the grade look-ups read   *)
(***************************************************************************)
\* the sub-scores of a row are three different numbers
DistinctColumns(row) ==
    Cardinality({row.type_configuration[i] : i \in 1..3}) = 3

\* C17: polish, symmetry and cut each read a position of their own: for a cut grade
\* whose row holds three different sub-scores, the cut score is neither the sub-score
\* that check_polish reads for that grade nor the one that check_symmetry reads, and
\* these two differ
C17_ThreeDistinctColumns ==
    (RoundScored /\ override.kind = "None" /\ IsStr(record["cut"])
        /\ GradeRow(record["cut"]) # 0
        /\ DistinctColumns(RoundScore[GradeRow(record["cut"])])) =>
        /\ out.score["cut_score"] # check_polish("None", record["cut"])
        /\ out.score["cut_score"] # check_symmetry("None", record["cut"])
        /\ check_polish("None", record["cut"]) # check_symmetry("None", record["cut"])


(***************************************************************************)
(* C18: sentinel spellings of the override record                          *)
(***************************************************************************)
\* C18: whatever the field and whatever the sentinel spelling, an override value
\* equal to that spelling is not copied into the working record: after an evaluation
\* that returns scores no field of the cleaned record holds a sentinel spelling that
\* the override record holds for it and the raw record does not
C18_SentinelNeverCopied ==
    (pc = "done" /\ out.kind = "score" /\ override.kind = "dict") =>
        \A i \in 1..Len(RulesOf(out.path)) :
            (/\ override.d[RulesOf(out.path)[i].from] \in SentinelSpellings
             /\ record[RulesOf(out.path)[i].to] # override.d[RulesOf(out.path)[i].from])
                => out.pdf_dc[RulesOf(out.path)[i].to] # override.d[RulesOf(out.path)[i].from]


(***************************************************************************)
(* C19: "ND" in the cleaned record                                         *)
(***************************************************************************)
\* the text fields that both paths score by look-up
ScoredTextFields == {"polish", "symmetry", "girdle", "culet", "fluorescence", "color_grade"}

\* C19: after an evaluation that returns scores, with no override record given, every
\* scored text field that is null in the raw record holds "ND" in the cleaned record,
\* and a field that holds a text other than a sentinel spelling in the raw record does
\* not hold "ND" in the cleaned record
C19_NdForNullOnly ==
    (pc = "done" /\ out.kind = "score" /\ override.kind = "None") =>
        \A k \in ScoredTextFields :
            /\ record[k] = PyNone => out.pdf_dc[k] = "ND"
            /\ (IsStr(record[k]) /\ record[k] \notin SentinelSpellings \cup {"ND"})
                   => out.pdf_dc[k] # "ND"


(***************************************************************************)
(* C20: the measurement score of a round record                            *)
(***************************************************************************)
\* the carat that the evaluation is to go by: the override's when it gives one, the
\* raw record's otherwise
CaratGiven ==
    IF override.kind = "dict" /\ NonSentinel(override.d["carat"], SentCarat)
    THEN PyFloatOf(override.d["carat"])
    ELSE IF IsStr(record["carat"]) THEN PyFloatOf(SplitOn(record["carat"], " ")[1])
    ELSE [ok |-> FALSE, v |-> 0]

\* the diameter: the first token of the raw measurement
DiameterGiven ==
    IF IsStr(record["measurement"]) THEN PyFloatOf(LastMea(record["measurement"]))
    ELSE [ok |-> FALSE, v |-> 0]

\* 5 when the diameter reaches the minimum of the carat's bucket, 5 from 2.0 ct on
\* with a diameter of 8 mm or more, 0 otherwise
MeasurementRule(value, carat) ==
    IF \E i \in 1..Len(MeasurementTable) :
           InWindow(carat, MeasurementTable[i].weight) /\ value >= MeasurementTable[i].value
    THEN 5
    ELSE IF carat >= 2 * Scale /\ value >= 8 * Scale THEN 5 ELSE 0

\* C20: a round record with a diameter and a carat that parse gets the measurement
\* score of the rule, whether the carat is the raw record's or the override's
C20_MeasurementByCarat ==
    (RoundScored /\ DiameterGiven.ok /\ CaratGiven.ok
        /\ (override.kind = "dict" => override.d["measurement"] = PyNone)) =>
        out.score["measurement_score"] = MeasurementRule(DiameterGiven.v, CaratGiven.v)


(***************************************************************************)
(* C21: letter case of the shape label                                     *)
(***************************************************************************)
\* C21: fetch_data classifies two labels that differ in letter case only to the same
\* family: the record with its label in lower case gets the family of the record
C21_CaseInsensitiveFamily ==
    (pc = "done" /\ fn = "fetch_data" /\ out.path = "fancy" /\ out.kind # "raise"
        /\ override.kind = "None" /\ IsStr(record["shape"])) =>
        fetch_data([record EXCEPT !["shape"] = PyLower(record["shape"])],
                   override, shape_hint).family = out.family


(***************************************************************************)
(* C22: cut-cornered labels                                                *)
(***************************************************************************)
\* the label holds "cut-cornered" or "cut cornered"
CutCornered(shape) ==
    Contains(PyLower(shape), "cut-cornered") \/ Contains(PyLower(shape), "cut cornered")

\* the family that the claim gives a cut-cornered label
CutCorneredFamily(shape) ==
    IF Contains(PyLower(shape), "rectangular") THEN "radiant rec" ELSE "radiant sq"

\* C22: a cut-cornered label with "rectangular" is scored against "radiant rec" and
\* a cut-cornered label with "square" against "radiant sq", by fetch_data on the
\* record and by the scoring run, which maps the shape before it calls the engine
C22_CutCorneredFamily ==
    (pc = "done" /\ fn = "fetch_data" /\ override.kind = "None" /\ shape_hint = PyNone
        /\ IsStr(record["shape"]) /\ CutCornered(record["shape"])
        /\ (Contains(PyLower(record["shape"]), "rectangular")
               \/ Contains(PyLower(record["shape"]), "square"))) =>
        /\ out.family = CutCorneredFamily(record["shape"])
        /\ ScoreDiamond(record).family = CutCorneredFamily(record["shape"])


(***************************************************************************)
(* C23: the "indented" + "natural" pair of check_symbol                    *)
(***************************************************************************)

\* the lists of TokenLists with the tokens "Indented" and "Natural" put in as neighbours
PairLists(n) ==
    UNION {{InsertAt(InsertAt(l, k, "Indented"), k + 1, "Natural") : k \in 0..Len(l)} :
               l \in TokenLists(n)}

InitFold ==
    /\ NoPipeline
    /\ characteristic_data = CharacteristicData
    /\ job = NoJobs
    /\ NoRun
    /\ symbols \in PairLists(MaxTokens)
    /\ delimiter \in {",", ", ", " "}
    /\ added \in {t \in TokenPool : Recognized(t)}
    /\ at \in 0..Len(symbols)
    /\ symbol_score = NoValue
    /\ added_score = NoValue
    /\ pc = "ready"
    /\ fn = ""
    /\ record = RoundBase
    /\ override = NoOverride
    /\ shape_hint = PyNone
    /\ out = NoOut

SpecFold == InitFold /\ [][NextSymbol]_vars

\* the values appended to score when every "indented", "natural" pair is one name
\* looked up once and every other token is looked up by the rule of the first token
RECURSIVE FoldedScores(_, _, _)
FoldedScores(data_ls, id, score) ==
    IF id > Len(data_ls) THEN score
    ELSE IF SetsIndFlag(data_ls, id)
         THEN FoldedScores(data_ls, id + 2,
                           IF SymbolValue("INDENTED NATURAL") # NoValue
                           THEN Append(score, SymbolValue("INDENTED NATURAL")) ELSE score)
         ELSE FoldedScores(data_ls, id + 1,
                           IF /\ IndentedFold(data_ls[id]) # ""
                              /\ SymbolValue(NameNoFlag(IndentedFold(data_ls[id]))) # NoValue
                           THEN Append(score, SymbolValue(NameNoFlag(IndentedFold(data_ls[id]))))
                           ELSE score)

\* the list of the state split into tokens holds "indented" directly before "natural"
HasIndentedPair ==
    /\ Len(SymbolTokens(Join(symbols, delimiter))) > 1
    /\ \E id \in 1..Len(SymbolTokens(Join(symbols, delimiter))) :
           SetsIndFlag(SymbolTokens(Join(symbols, delimiter)), id)

\* C23: when the token "indented" is directly followed by the token "natural", the loop of
\* check_symbol collects the value of "Indented Natural" once for the pair, no value for
\* "natural" alone, and the values of the other tokens by one rule before and after the pair
C23_IndentedNaturalFolded ==
    (pc = "listed" /\ HasIndentedPair) =>
        SymbolLoop(SymbolTokens(Join(symbols, delimiter)), 1, FALSE, <<>>)
            = FoldedScores(SymbolTokens(Join(symbols, delimiter)), 1, <<>>)


(***************************************************************************)
(* C24: round labels entering through fetch_data                           *)
(***************************************************************************)

\* the two calls return the same score record, original-record copy and cleaned record,
\* or both raise
SameReturn(a, b) ==
    /\ a.kind = b.kind
    /\ a.kind # "raise" =>
           /\ a.score = b.score
           /\ a.digisation_score = b.digisation_score
           /\ a.pdf_dc_new = b.pdf_dc_new
           /\ a.pdf_dc = b.pdf_dc

\* C24: a record whose shape label contains "round" in any letter case and at any word
\* position, entering through fetch_data, is evaluated by the round path against the
\* round requirement, and fetch_data returns what fetch_data_round returns when called
\* directly on the same record and override (the override names no shape of its own)
C24_RoundThroughFetchData ==
    (pc = "done" /\ fn = "fetch_data" /\ shape_hint = PyNone
        /\ (override.kind = "None" \/ override.d["shape"] \in {Missing, PyNone})
        /\ IsStr(record["shape"]) /\ Contains(PyLower(record["shape"]), "round")) =>
        /\ out.path = "round"
        /\ out.kind # "raise" => PyLower(out.family) = "round"
        /\ SameReturn(out, fetch_data_round(record, override, PyNone))


(***************************************************************************)
(* The batch files: create_batch_concurrent.py and check_batch_concurrent.py *)
(***************************************************************************)
\* how many certificate links the input file holds at most
MaxUrls == 11
\* the largest args.jobs
MaxJobs == 3

\* the values of args.batch_size: below, at and above the allowed maximum
BatchSizes == {2, 5, 8}

Min2(a, b) == IF a < b THEN a ELSE b

Max2(a, b) == IF a > b THEN a ELSE b

\* l[a:b] of Python for 0 <= a
Slice(l, a, b) == SubSeq(l, a + 1, Min2(b, Len(l)))

\* the certificate link of the i-th record of the input file
Url(i) == "u" \o NatStr(i)

\* effective_batch_size = min(max(args.batch_size, 1), 5)
effective_batch_size(bs) == Min2(Max2(bs, 1), 5)

\* urls_per_job without the rounding up
urls_per_jobFloor(total_urls, n) == total_urls \div n

\* urls_per_job = total_urls // args.jobs, plus one when there is a remainder
urls_per_job(total_urls, n) ==
    IF total_urls % n # 0 THEN (total_urls \div n) + 1 ELSE total_urls \div n

\* create_batch_requests: one request for every group of urls_per_request links, its
\* custom_id made of the job prefix and the index of the request in the job
create_batch_requests(urls, urls_per_request, job_prefix) ==
    [r \in 1..((Len(urls) + urls_per_request - 1) \div urls_per_request) |->
        [custom_id |-> job_prefix \o "request-" \o NatStr(r - 1),
         urls |-> Slice(urls, (r - 1) * urls_per_request,
                        (r - 1) * urls_per_request + urls_per_request)]]

start_idx_local(job_idx) == job_idx * urls_per_job(Len(list_of_url), jobs)

end_idx_local(job_idx) ==
    Min2(start_idx_local(job_idx) + urls_per_job(Len(list_of_url), jobs), Len(list_of_url))

\* the manifest entry process_single_job returns
JobEntry(job_idx) ==
    [job_index |-> job_idx,
     urls |-> end_idx_local(job_idx) - start_idx_local(job_idx),
     requests |-> Len(create_batch_requests(
                          Slice(list_of_url, start_idx_local(job_idx), end_idx_local(job_idx)),
                          effective_batch_size(batch_size), "")),
     start_url_idx |-> start_idx_local(job_idx),
     end_url_idx |-> end_idx_local(job_idx) - 1]

InitBatch ==
    /\ \E n \in 0..MaxUrls : list_of_url = [i \in 1..n |-> Url(i)]
    /\ jobs \in 1..MaxJobs
    /\ batch_size \in BatchSizes
    /\ bpc = "create"
    /\ finished = {}
    /\ job_info = <<>>
    /\ batchfiles = [j \in 0..(jobs - 1) |-> <<>>]
    /\ manifest = [total_urls |-> 0, total_jobs |-> 0, batch_size |-> 5, jobs |-> <<>>]
    /\ completed_jobs = {}
    /\ parsed_jobs = {}
    /\ all_results = <<>>
    /\ NoCron
    /\ NoRetry
    /\ NoRun
    /\ characteristic_data = CharacteristicData
    /\ job = NoJobs
    /\ pc = "ready"
    /\ fn = ""
    /\ record = RoundBase
    /\ override = NoOverride
    /\ shape_hint = PyNone
    /\ out = NoOut
    /\ symbols = <<>>
    /\ delimiter = ", "
    /\ added = ""
    /\ at = 0
    /\ symbol_score = NoValue
    /\ added_score = NoValue

\* process_single_job(job_idx) in its thread, and the loop over as_completed that
\* collects what it returned: a job past the end of the list writes nothing
process_single_job(job_idx) ==
    /\ bpc = "create"
    /\ job_idx \in (0..(jobs - 1)) \ finished
    /\ finished' = finished \cup {job_idx}
    /\ IF start_idx_local(job_idx) >= Len(list_of_url)
       THEN UNCHANGED <<batchfiles, job_info>>
       ELSE /\ batchfiles' = [batchfiles EXCEPT ![job_idx] =
                                 create_batch_requests(
                                     Slice(list_of_url, start_idx_local(job_idx),
                                           end_idx_local(job_idx)),
                                     effective_batch_size(batch_size),
                                     "job-" \o NatStr(job_idx) \o "-")]
            /\ job_info' = Append(job_info, JobEntry(job_idx))
    /\ UNCHANGED <<list_of_url, jobs, batch_size, bpc, manifest, completed_jobs,
                   parsed_jobs, all_results>>
    /\ UNCHANGED <<scoring, cronjob, retrying>>

\* the manifest is written when every thread has returned
SaveManifest ==
    /\ bpc = "create"
    /\ finished = 0..(jobs - 1)
    /\ manifest' = [total_urls |-> Len(list_of_url),
                    total_jobs |-> Len(job_info),
                    batch_size |-> batch_size,
                    jobs |-> job_info]
    /\ bpc' = "created"
    /\ UNCHANGED <<list_of_url, jobs, batch_size, finished, job_info, batchfiles,
                   completed_jobs, parsed_jobs, all_results>>
    /\ UNCHANGED <<scoring, cronjob, retrying>>


\* int(parts[1]) of the custom_id split at "-"; NoValue stands for the ValueError
BatchIdx(custom_id) ==
    IF /\ SplitOn(custom_id, "-")[2] # ""
       /\ DigitRun(SplitOn(custom_id, "-")[2], 1) = Len(SplitOn(custom_id, "-")[2])
    THEN DigitsVal(SplitOn(custom_id, "-")[2])
    ELSE NoValue

\* url_batch of download_and_parse_results: the links a result is tagged with
url_batch(custom_id, job_urls, size) ==
    IF ~Contains(custom_id, "-") THEN job_urls
    ELSE IF BatchIdx(custom_id) = NoValue THEN job_urls
    ELSE Slice(job_urls, BatchIdx(custom_id) * size,
               Min2(BatchIdx(custom_id) * size + size, Len(job_urls)))

\* the records the vision model extracts for a request, one per image and in the order
\* of the images: report is the link of the certificate a record was read from
Extracted(request) == [i \in 1..Len(request.urls) |-> [report |-> request.urls[i]]]

\* parse_batch_response: the record at position idx gets base64_images[idx] as its
\* image_url when there is one
parse_batch_response(parsed, base64_images) ==
    [i \in 1..Len(parsed) |->
        [report |-> parsed[i].report,
         image_url |-> IF i <= Len(base64_images) THEN base64_images[i] ELSE Missing]]

\* the parsed records of the results of a job, the results taken in the order given
RECURSIVE ParseResults(_, _, _)
ParseResults(results, job_urls, size) ==
    IF results = <<>> THEN <<>>
    ELSE parse_batch_response(Extracted(Head(results)),
                              url_batch(Head(results).custom_id, job_urls, size))
         \o ParseResults(Tail(results), job_urls, size)

\* the sequence l from its last element to its first
Reversed(l) == [i \in 1..Len(l) |-> l[Len(l) + 1 - i]]

\* the manifest entry of job j
ManifestEntry(j) ==
    manifest.jobs[CHOOSE i \in 1..Len(manifest.jobs) : manifest.jobs[i].job_index = j]

\* the status check of the check step: some of the submitted jobs have completed; with
\* none completed the step exits with code 1
CheckStatus ==
    /\ bpc = "created"
    /\ \E done \in SUBSET {manifest.jobs[i].job_index : i \in 1..Len(manifest.jobs)} :
           /\ completed_jobs' = done
           /\ bpc' = IF done = {} THEN "failed" ELSE "parse"
    /\ UNCHANGED <<list_of_url, jobs, batch_size, finished, job_info, batchfiles,
                   manifest, parsed_jobs, all_results>>
    /\ UNCHANGED <<scoring, cronjob, retrying>>

\* download_and_parse_results of one completed job, and the loop over as_completed that
\* extends all_results; the output file holds the results in any order
download_and_parse_results(job_index) ==
    /\ bpc = "parse"
    /\ job_index \in completed_jobs \ parsed_jobs
    /\ \E results \in {batchfiles[job_index], Reversed(batchfiles[job_index])} :
           all_results' = all_results \o
               ParseResults(results,
                            Slice(list_of_url, ManifestEntry(job_index).start_url_idx,
                                  ManifestEntry(job_index).end_url_idx + 1),
                            manifest.batch_size)
    /\ parsed_jobs' = parsed_jobs \cup {job_index}
    /\ UNCHANGED <<list_of_url, jobs, batch_size, bpc, finished, job_info, batchfiles,
                   manifest, completed_jobs>>
    /\ UNCHANGED <<scoring, cronjob, retrying>>

\* batch_results_concurrent.json is written when every completed job is parsed
SaveResults ==
    /\ bpc = "parse"
    /\ parsed_jobs = completed_jobs
    /\ bpc' = "checked"
    /\ UNCHANGED <<list_of_url, jobs, batch_size, finished, job_info, batchfiles,
                   manifest, completed_jobs, parsed_jobs, all_results>>
    /\ UNCHANGED <<scoring, cronjob, retrying>>

NextBatch ==
    \/ \E job_idx \in 0..(MaxJobs - 1) : process_single_job(job_idx)
    \/ SaveManifest
    \/ CheckStatus
    \/ \E job_index \in 0..(MaxJobs - 1) : download_and_parse_results(job_index)
    \/ SaveResults

SpecBatch == InitBatch /\ [][NextBatch]_vars

(***************************************************************************)
(* C29: the split of the links into jobs and requests                      *)
(***************************************************************************)

\* the links of the requests of a list of requests, in order
RECURSIVE LinksOf(_)
LinksOf(requests) ==
    IF requests = <<>> THEN <<>> ELSE Head(requests).urls \o LinksOf(Tail(requests))

\* the links of the batch files of jobs j, j + 1, ..., in order
RECURSIVE LinksFrom(_)
LinksFrom(j) == IF j >= jobs THEN <<>> ELSE LinksOf(batchfiles[j]) \o LinksFrom(j + 1)

\* the positions start_url_idx..end_url_idx of the manifest entry i
RangeOf(i) == manifest.jobs[i].start_url_idx .. manifest.jobs[i].end_url_idx

\* C29: once the manifest is written, the requests of the batch files, read job by job,
\* hold the links of the list once each and in list order, no request holds more than
\* five links, and the ranges of the manifest are pairwise disjoint and cover the list
C29_SplitIsPartition ==
    bpc # "create" =>
        /\ LinksFrom(0) = list_of_url
        /\ \A j \in 0..(jobs - 1) : \A r \in 1..Len(batchfiles[j]) :
               Len(batchfiles[j][r].urls) \in 1..5
        /\ \A a, b \in 1..Len(manifest.jobs) : a # b => RangeOf(a) \cap RangeOf(b) = {}
        /\ UNION {RangeOf(i) : i \in 1..Len(manifest.jobs)} = 0..(Len(list_of_url) - 1)
        /\ \A i \in 1..Len(manifest.jobs) :
               LinksOf(batchfiles[manifest.jobs[i].job_index])
                   = Slice(list_of_url, manifest.jobs[i].start_url_idx,
                           manifest.jobs[i].end_url_idx + 1)

\* C29 witness: eleven links split over two jobs, the first job with two requests, one
\* of them of five links
C29_Witness ==
    /\ bpc = "created"
    /\ Len(list_of_url) = 11
    /\ Len(manifest.jobs) = 2
    /\ \E j \in 0..(jobs - 1) :
           /\ Len(batchfiles[j]) = 2
           /\ Len(batchfiles[j][1].urls) = 5

(***************************************************************************)
(* C25: the link a parsed record is tagged with                            *)
(***************************************************************************)

\* C25: every record of the results of the check step is tagged with the link that was
\* sent at its position of its request
C25_TaggedWithSentUrl ==
    bpc = "checked" =>
        \A i \in 1..Len(all_results) : all_results[i].image_url = all_results[i].report


(***************************************************************************)
(* The cronjob loop (cronjob.py) and the fetch step (1.FetchFromDB/run.py) *)
(***************************************************************************)
\* how many rows Affiliate_app_productinfo holds
MaxRows == 4
\* the LIMIT of the fetch query, scaled down from 1000
PageLimit == 2
\* the defaults of --jobs and --batch-size of the create step
DefaultJobs == 10
DefaultBatchSize == 5

\* the diamond_id of the row with primary key i; diamond ids do not follow the keys
DiamondId(i) == "d" \o NatStr((i * 7) % 10)

\* the elements of a set of numbers in ascending order
RECURSIVE Ascending(_)
Ascending(S) ==
    IF S = {} THEN <<>>
    ELSE <<CHOOSE x \in S : \A y \in S : x <= y>>
         \o Ascending(S \ {CHOOSE x \in S : \A y \in S : x <= y})

\* the query of the fetch step: the pending rows above the pointer, by id, one page
Query(pointer) ==
    Slice(Ascending({i \in DOMAIN db : db[i].pending /\ i > pointer}), 0, PageLimit)

\* max_pk_id when only the rows with a certificate link are tracked
RECURSIVE max_pk_idLinked(_, _)
max_pk_idLinked(rows, pointer) ==
    IF rows = <<>> THEN pointer
    ELSE max_pk_idLinked(Tail(rows), IF Head(rows) > pointer /\ db[Head(rows)].link
                                     THEN Head(rows) ELSE pointer)

\* max_pk_id after the loop over the rows
RECURSIVE max_pk_id(_, _)
max_pk_id(rows, pointer) ==
    IF rows = <<>> THEN pointer
    ELSE max_pk_id(Tail(rows), IF Head(rows) > pointer THEN Head(rows) ELSE pointer)

\* output_data: a record for every row that has a certificate link
RECURSIVE output_data(_)
output_data(rows) ==
    IF rows = <<>> THEN <<>>
    ELSE (IF db[Head(rows)].link
          THEN <<[diamond_id |-> DiamondId(Head(rows)), certificate_link |-> Url(Head(rows))]>>
          ELSE <<>>)
         \o output_data(Tail(rows))

\* a "Finished: <step> (exit code <code>)" line of the cronjob log
Finished(name, code) == [iteration |-> iteration, step |-> name, code |-> code, records |-> NoValue]

InitCron ==
    /\ db \in [1..MaxRows -> [link : BOOLEAN, pending : BOOLEAN]]
    /\ last_processed_id \in 0..1
    /\ last_id = 0
    /\ fetched = <<>>
    /\ diamond_records = NoFile
    /\ cron_pc = "fetch"
    /\ iteration = 0
    /\ cron_log = <<>>
    /\ NoBatch
    /\ NoRetry
    /\ NoRun
    /\ characteristic_data = CharacteristicData
    /\ job = NoJobs
    /\ pc = "ready"
    /\ fn = ""
    /\ record = RoundBase
    /\ override = NoOverride
    /\ shape_hint = PyNone
    /\ out = NoOut
    /\ symbols = <<>>
    /\ delimiter = ", "
    /\ added = ""
    /\ at = 0
    /\ symbol_score = NoValue
    /\ added_score = NoValue

\* the fetch script ran to its end: the old records file is removed, the page is read,
\* the records with a link are written and the pointer moves to the highest id seen
FetchRows ==
    /\ last_id' = last_processed_id
    /\ fetched' = Query(last_processed_id)
    /\ diamond_records' = [exists |-> TRUE, data |-> output_data(Query(last_processed_id))]
    /\ last_processed_id' = IF Query(last_processed_id) # <<>>
                            THEN max_pk_id(Query(last_processed_id), last_processed_id)
                            ELSE last_processed_id

\* the fetch script caught a database error: the old records file is removed and
\* nothing is written
FetchCaughtError ==
    /\ diamond_records' = NoFile
    /\ fetched' = <<>>
    /\ UNCHANGED <<last_id, last_processed_id>>

\* iteration += 1 and step 1 of the loop: the fetch script exits with code 0 after a
\* complete run or a caught error, or it does not run to its end and the loop breaks
FetchStep ==
    /\ cron_pc = "fetch"
    /\ iteration' = iteration + 1
    /\ \/ /\ FetchRows \/ FetchCaughtError
          /\ cron_log' = Append(cron_log, [Finished("fetch", 0) EXCEPT !.iteration = iteration + 1])
          /\ cron_pc' = "has_work"
       \/ /\ UNCHANGED <<last_id, last_processed_id, fetched, diamond_records>>
          /\ cron_log' = Append(cron_log, [Finished("fetch", 1) EXCEPT !.iteration = iteration + 1])
          /\ cron_pc' = "ended"
    /\ UNCHANGED db
    /\ UNCHANGED <<scoring, batching, retrying>>

\* fetch_batch_has_work: the loop goes on when the records file holds a record
HasWork ==
    /\ cron_pc = "has_work"
    /\ cron_log' = Append(cron_log, [Finished("has_work", 0) EXCEPT
                                        !.records = Len(diamond_records.data)])
    /\ cron_pc' = IF diamond_records.exists /\ Len(diamond_records.data) > 0
                  THEN "create" ELSE "ended"
    /\ UNCHANGED <<db, last_processed_id, last_id, fetched, diamond_records, iteration>>
    /\ UNCHANGED <<scoring, batching, retrying>>

\* the certificate links of the records of a file
LinksOfRecords(records) == [i \in 1..Len(records) |-> records[i].certificate_link]

\* the requests of job j when urls are split over n jobs with batch size bs
BatchFileOf(urls, n, bs, j) ==
    IF j * urls_per_job(Len(urls), n) >= Len(urls) THEN <<>>
    ELSE create_batch_requests(
             Slice(urls, j * urls_per_job(Len(urls), n),
                   Min2(j * urls_per_job(Len(urls), n) + urls_per_job(Len(urls), n), Len(urls))),
             effective_batch_size(bs), "job-" \o NatStr(j) \o "-")

\* a failing later step after which the loop goes on with its next iteration
StepFailsGoesOn(name) ==
    /\ cron_log' = Append(cron_log, Finished(name, 1))
    /\ cron_pc' = "fetch"

\* a later step of the loop exits with a code other than 0: the cronjob returns
StepFails(name) ==
    /\ cron_log' = Append(cron_log, Finished(name, 1))
    /\ cron_pc' = "ended"

\* step 2: create_batch_concurrent.py with its defaults on the records file
CreateStep ==
    /\ cron_pc = "create"
    /\ \/ /\ cron_log' = Append(cron_log, Finished("create", 0))
          /\ cron_pc' = "submit"
          /\ list_of_url' = LinksOfRecords(diamond_records.data)
          /\ jobs' = DefaultJobs
          /\ batch_size' = DefaultBatchSize
          /\ batchfiles' = [j \in 0..(DefaultJobs - 1) |->
                               BatchFileOf(LinksOfRecords(diamond_records.data),
                                           DefaultJobs, DefaultBatchSize, j)]
          /\ bpc' = "created"
       \/ /\ StepFails("create")
          /\ UNCHANGED <<list_of_url, jobs, batch_size, batchfiles, bpc>>
    /\ UNCHANGED <<finished, job_info, manifest, completed_jobs, parsed_jobs, all_results>>
    /\ UNCHANGED <<db, last_processed_id, last_id, fetched, diamond_records, iteration>>
    /\ UNCHANGED <<scoring, retrying>>

\* step 3: submit_batch_concurrent.py
SubmitStep ==
    /\ cron_pc = "submit"
    /\ \/ /\ cron_log' = Append(cron_log, Finished("submit", 0))
          /\ cron_pc' = "check"
       \/ StepFails("submit")
    /\ UNCHANGED <<db, last_processed_id, last_id, fetched, diamond_records, iteration>>
    /\ UNCHANGED <<scoring, batching, retrying>>

\* step 4: check_batch_concurrent.py
CheckStep ==
    /\ cron_pc = "check"
    /\ \/ /\ cron_log' = Append(cron_log, Finished("check", 0))
          /\ cron_pc' = "scoring"
       \/ StepFails("check")
    /\ UNCHANGED <<db, last_processed_id, last_id, fetched, diamond_records, iteration>>
    /\ UNCHANGED <<scoring, batching, retrying>>

\* step 5: the scoring step gives some of the fetched gems their digitization id; after
\* it the loop starts its next iteration
ScoringStep ==
    /\ cron_pc = "scoring"
    /\ \/ /\ cron_log' = Append(cron_log, Finished("scoring", 0))
          /\ cron_pc' = "fetch"
          /\ \E done \in SUBSET {fetched[i] : i \in 1..Len(fetched)} :
                 db' = [i \in DOMAIN db |->
                           IF i \in done /\ db[i].link
                           THEN [db[i] EXCEPT !.pending = FALSE] ELSE db[i]]
       \/ /\ StepFails("scoring")
          /\ UNCHANGED db
    /\ UNCHANGED <<last_processed_id, last_id, fetched, diamond_records, iteration>>
    /\ UNCHANGED <<scoring, batching, retrying>>

NextCron == FetchStep \/ HasWork \/ CreateStep \/ SubmitStep \/ CheckStep \/ ScoringStep

SpecCron == InitCron /\ [][NextCron]_vars


\* the loop never idles: a step that can run does run
SpecCronFair == SpecCron /\ WF_vars(NextCron)

(***************************************************************************)
(* C26: the order of the steps of the cronjob                              *)
(***************************************************************************)

\* the step of the loop that follows step name
NextStepName(name) ==
    CASE name = "fetch" -> "has_work" [] name = "has_work" -> "create"
      [] name = "create" -> "submit" [] name = "submit" -> "check"
      [] name = "check" -> "scoring" [] OTHER -> "fetch"

\* C26: the log of the cronjob starts with the fetch step of iteration 1; a line follows
\* another only when that one reports exit code 0 (and, for the look at the fetch
\* result, at least one record), it is then the line of the next step of the same
\* iteration, or of the fetch step of the next iteration after the scoring step; when
\* the last line reports a failure or an empty fetch result the cronjob has ended
C26_StepsInOrder ==
    /\ cron_log # <<>> => cron_log[1].step = "fetch" /\ cron_log[1].iteration = 1
    /\ \A k \in 2..Len(cron_log) :
           /\ cron_log[k - 1].code = 0
           /\ cron_log[k - 1].step = "has_work" => cron_log[k - 1].records > 0
           /\ cron_log[k].step = NextStepName(cron_log[k - 1].step)
           /\ cron_log[k].iteration = IF cron_log[k - 1].step = "scoring"
                                      THEN cron_log[k - 1].iteration + 1
                                      ELSE cron_log[k - 1].iteration
    /\ (cron_log # <<>> /\ (\/ cron_log[Len(cron_log)].code # 0
                            \/ cron_log[Len(cron_log)].records = 0))
           => cron_pc = "ended"
    /\ (cron_log # <<>> /\ cron_pc # "ended")
           => cron_pc = NextStepName(cron_log[Len(cron_log)].step)

\* C26 witness: one full iteration was logged and the check step of the second failed
C26_Witness ==
    /\ Len(cron_log) = 11
    /\ cron_log[11].step = "check" /\ cron_log[11].code = 1 /\ cron_log[11].iteration = 2
    /\ cron_pc = "ended"

(***************************************************************************)
(* C27: the cronjob ends only when nothing is left to fetch                *)
(***************************************************************************)

\* the certificate link of row i is in a request of a batch file
InBatch(i) ==
    \E j \in DOMAIN batchfiles : \E r \in 1..Len(batchfiles[j]) :
        \E u \in 1..Len(batchfiles[j][r].urls) : batchfiles[j][r].urls[u] = Url(i)

\* a step has exited with a code other than 0, or the fetch script caught an error
SomeStepFailed ==
    \/ \E k \in 1..Len(cron_log) : cron_log[k].code # 0
    \/ cron_pc \in {"has_work", "ended"} /\ ~diamond_records.exists

\* C27: a pending row with a certificate link and an id above the stored pointer is
\* eventually in a batch file, unless a step of the run fails
C27_PendingGemBatched ==
    \A i \in 1..MaxRows :
        (db[i].pending /\ db[i].link /\ i > last_processed_id)
            ~> (InBatch(i) \/ SomeStepFailed)

(***************************************************************************)
(* C28: the pagination pointer of the fetch step                           *)
(***************************************************************************)

\* C28: a run of the fetch step never lowers the pointer; a run that returned rows
\* leaves it at the highest id among them, a run that returned none or failed leaves
\* it as it was; and the records written belong to rows above the pointer the run
\* started with
C28_PointerMonotone ==
    [][/\ last_processed_id' >= last_processed_id
       /\ (cron_pc = "fetch" /\ cron_pc' = "has_work" /\ fetched' # <<>>) =>
              /\ \A k \in 1..Len(fetched') : fetched'[k] <= last_processed_id'
              /\ \E k \in 1..Len(fetched') : fetched'[k] = last_processed_id'
       /\ (cron_pc = "fetch" /\ (cron_pc' = "ended" \/ fetched' = <<>>)) =>
              last_processed_id' = last_processed_id
       /\ (cron_pc = "fetch" /\ cron_pc' = "has_work") =>
              \A r \in 1..Len(diamond_records'.data) :
                  \E i \in DOMAIN db :
                      /\ DiamondId(i) = diamond_records'.data[r].diamond_id
                      /\ i > last_processed_id]_vars

\* C28 witness: the second run of the fetch step returned a row with a link and then a
\* row without one, and the pointer stands at the row without a link
C28_Witness ==
    /\ cron_pc = "has_work"
    /\ iteration = 2
    /\ Len(fetched) = 2
    /\ db[fetched[1]].link /\ ~db[fetched[2]].link
    /\ last_processed_id = fetched[2]
    /\ Len(diamond_records.data) = 1


(***************************************************************************)
(* The retry step (4.RetryFailures/run.py)                                 *)
(***************************************************************************)
\* how many gems the records file of a retry run holds at most
MaxRetryGems == 2

\* the records file that holds the gems of S, by primary key
RecordsOf(S) ==
    [exists |-> TRUE,
     data |-> [k \in 1..Cardinality(S) |->
                  [diamond_id |-> DiamondId(Ascending(S)[k]),
                   certificate_link |-> Url(Ascending(S)[k])]]]

RetryIds == {DiamondId(i) : i \in 1..MaxRetryGems}

\* the files of ids over RetryIds
IdFiles == {[exists |-> TRUE, data |-> S] : S \in SUBSET RetryIds}

\* truth_ids: the ids of build_diamond_records_index
truth_ids(records) == {records[k].diamond_id : k \in 1..Len(records)}

\* the union written to final_failure.json without what the file held
combinedFresh(existing, still_missing) == still_missing

\* combined = set(existing).union(still_missing)
combined(existing, still_missing) == existing \cup still_missing

\* the records of failed_diamonds.json: those of the records file whose id is missing
RECURSIVE enriched_missing_records(_, _)
enriched_missing_records(records, missing) ==
    IF records = <<>> THEN <<>>
    ELSE (IF Head(records).diamond_id \in missing THEN <<Head(records)>> ELSE <<>>)
         \o enriched_missing_records(Tail(records), missing)

InitRetry ==
    /\ diamond_records \in {RecordsOf(S) : S \in SUBSET (1..MaxRetryGems)} \cup {NoFile}
    /\ insert_to_db \in IdFiles \cup {NoIds}
    /\ final_failure \in IdFiles \cup {NoIds}
    /\ failed_diamonds \in {NoFile, RecordsOf({1})}
    /\ missing_ids = {}
    /\ rpc = "start"
    /\ db = <<>>
    /\ last_processed_id = 0
    /\ last_id = 0
    /\ fetched = <<>>
    /\ cron_pc = "idle"
    /\ iteration = 0
    /\ cron_log = <<>>
    /\ NoBatch
    /\ NoRun
    /\ characteristic_data = CharacteristicData
    /\ job = NoJobs
    /\ pc = "ready"
    /\ fn = ""
    /\ record = RoundBase
    /\ override = NoOverride
    /\ shape_hint = PyNone
    /\ out = NoOut
    /\ symbols = <<>>
    /\ delimiter = ", "
    /\ added = ""
    /\ at = 0
    /\ symbol_score = NoValue
    /\ added_score = NoValue

RetryOthers ==
    /\ UNCHANGED <<db, last_processed_id, last_id, fetched, cron_pc, iteration, cron_log>>
    /\ UNCHANGED <<scoring, batching>>

\* run_integrity_and_recovery and the test of its result in __main__: the old
\* failed_diamonds.json is removed, the missing ids are found and their records written;
\* with nothing missing, or a file that cannot be loaded, the script exits
run_integrity_and_recovery ==
    /\ rpc = "start"
    /\ IF ~diamond_records.exists \/ ~insert_to_db.exists
       THEN /\ missing_ids' = {}
            /\ failed_diamonds' = NoFile
       ELSE /\ missing_ids' = truth_ids(diamond_records.data) \ insert_to_db.data
            /\ failed_diamonds' =
                   IF truth_ids(diamond_records.data) \ insert_to_db.data = {}
                   THEN NoFile
                   ELSE [exists |-> TRUE,
                         data |-> enriched_missing_records(
                                      diamond_records.data,
                                      truth_ids(diamond_records.data) \ insert_to_db.data)]
    /\ rpc' = IF missing_ids' = {} THEN "exit" ELSE "downstream"
    /\ UNCHANGED <<diamond_records, insert_to_db, final_failure>>
    /\ RetryOthers

\* run_downstream_steps: the four commands in order; a command that fails ends the
\* script; the scoring command leaves an InsertToDb.json of its own making
run_downstream_steps ==
    /\ rpc = "downstream"
    /\ \/ /\ rpc' = "final"
          /\ insert_to_db' \in IdFiles
       \/ /\ rpc' = "exit"
          /\ insert_to_db' \in {insert_to_db} \cup IdFiles
    /\ UNCHANGED <<diamond_records, failed_diamonds, final_failure, missing_ids>>
    /\ RetryOthers

\* write_final_failures: the ids still missing are merged into final_failure.json; when
\* a file cannot be loaded nothing is written
write_final_failures ==
    /\ rpc = "final"
    /\ final_failure' =
           IF ~diamond_records.exists \/ ~insert_to_db.exists THEN final_failure
           ELSE [exists |-> TRUE,
                 data |-> combined(final_failure.data,
                                   truth_ids(diamond_records.data) \ insert_to_db.data)]
    /\ rpc' = "written"
    /\ UNCHANGED <<diamond_records, insert_to_db, failed_diamonds, missing_ids>>
    /\ RetryOthers

\* the next run of the retry step, after another pass of the pipeline has left its
\* records file and its InsertToDb.json
NextRetryRun ==
    /\ rpc \in {"exit", "written"}
    /\ diamond_records' \in {RecordsOf(S) : S \in SUBSET (1..MaxRetryGems)}
    /\ insert_to_db' \in IdFiles
    /\ rpc' = "start"
    /\ UNCHANGED <<failed_diamonds, final_failure, missing_ids>>
    /\ RetryOthers

NextRetry ==
    run_integrity_and_recovery \/ run_downstream_steps \/ write_final_failures \/ NextRetryRun

SpecRetry == InitRetry /\ [][NextRetry]_vars

(***************************************************************************)
(* C30: final_failure.json over the retry runs                             *)
(***************************************************************************)

\* C30: no step of a retry run takes an id out of final_failure.json; after
\* write_final_failures the file holds what it held and every id of the records file
\* that InsertToDb.json does not hold; and the downstream pipeline and the final check
\* run only after the integrity check found a missing gem
C30_FinalFailureKeepsIds ==
    [][/\ final_failure.data \subseteq final_failure'.data
       /\ (rpc = "final" /\ diamond_records.exists /\ insert_to_db.exists) =>
              /\ final_failure'.exists
              /\ (truth_ids(diamond_records.data) \ insert_to_db.data)
                     \subseteq final_failure'.data
       /\ rpc' \in {"downstream", "final"} => missing_ids' # {}]_vars

\* C30 witness: write_final_failures ran on a file that already held an id no longer
\* missing, and added an id that is still missing
C30_Witness ==
    /\ rpc = "written"
    /\ missing_ids # {}
    /\ \E a, b \in final_failure.data :
           /\ a \in insert_to_db.data
           /\ b \in truth_ids(diamond_records.data) \ insert_to_db.data

====
